---- MODULE Spec2Model ----
(***************************************************************************)
(* One invocation (cycle) of run(): snapshot collection, account read,     *)
(* prompt build, oracle call, daily-loss gate, sequential per-decision     *)
(* processing with the running balance, ledger write.                      *)
(* Beside it, ModelsView: fetchActivity and what the chat tab renders.      *)
(*                                                                         *)
(* Optional values (null / undefined in the source) are sequences of       *)
(* length at most one: None is <<>>, Some(v) is <<v>>.                     *)
(***************************************************************************)
EXTENDS Integers, Sequences, FiniteSets, TLC

\* Longest batch the oracle is let to emit in the model.
MaxBatch == 3
MaxBatchAnyOutage == 1
MaxCycles == 2
MaxBatchModes == 2
MaxActivityCalls == 2
MaxTradings == 2

None == <<>>
Some(v) == <<v>>

\* JavaScript truthiness of an optional number: null, undefined and 0 are falsy.
Truthy(x) == x # None /\ x[1] # 0

\* a || b
JsOr(a, b) == IF Truthy(a) THEN a ELSE b

\* overrides.k when the key is present, undefined otherwise
Field(obj, k) == IF k \in DOMAIN obj THEN obj[k] ELSE None

SeqToSet(s) == {s[i] : i \in DOMAIN s}

-----------------------------------------------------------------------------
(* Program constants                                                        *)

supportedSymbols == <<"BTC/USDT", "ETH/USDT", "SOL/USDT", "BNB/USDT", "DOGE/USDT">>

Symbol == {"BTC", "ETH", "SOL", "BNB", "DOGE"}

Opeartion == {"Buy", "Sell", "Hold"}

\* z.number().min(1).max(30) on buy.leverage
MinLeverage == 1
MaxLeverage == 30

\* z.number().min(0).max(100) on sell.percentage
MinPercentage == 0
MaxPercentage == 100

\* z.array(decisionSchema).min(1).max(5)
MinDecisions == 1
MaxDecisions == 5

\* The risk configuration of the deployment (getRiskConfig), but for the
\* trading mode, which is a variable of the model.
RiskLimits == [maxLeverage |-> 2, maxPositionSizePercent |-> 150, maxDailyLossPercent |-> 10]

TradingModes == {"live", "dry-run"}

getRiskConfig(mode) == [tradingMode |-> mode] @@ RiskLimits

-----------------------------------------------------------------------------
(* The environment: what the collaborators can answer                       *)

\* Sets of instruments whose snapshot fetch fails in a cycle.
FeedOutages == {{"SOL/USDT"}}

\* Sets of instruments whose feed never answers a request in a cycle.
SilentFeeds == {{}, {"BTC/USDT"}, {"ETH/USDT", "DOGE/USDT"}}

\* Every subset of the five fetches can fail, none and all five included.
AnyFeedOutages == SUBSET SeqToSet(supportedSymbols)

\* Account states the Account Gateway can return.
\* The first has an unrealized loss of exactly 10% of the capital, the second of 15%.
AccountStates ==
  { [totalCashValue |-> 1000, availableCash |-> 10,
     positions |-> <<[symbol |-> "ETH", unrealizedPnl |-> Some(-120)],
                     [symbol |-> "BNB", unrealizedPnl |-> Some(20)],
                     [symbol |-> "SOL", unrealizedPnl |-> None]>>],
    [totalCashValue |-> 1000, availableCash |-> 10,
     positions |-> <<[symbol |-> "BTC", unrealizedPnl |-> Some(-150)]>>] }

\* An invocation of run() that the scheduler has not made yet.
IdleCycle == [pc |-> "idle", seed |-> 0, cash |-> 0, committed |-> 0, buys |-> 0]

BuyPayload(p, a, l) == Some([pricing |-> p, amount |-> a, leverage |-> l])

Decision(op, sym, b, s, adj) ==
  [opeartion |-> op, symbol |-> sym, buy |-> b, sell |-> s, adjustProfit |-> adj,
   chat |-> "rationale"]

\* Decisions the oracle can put in a batch; all of them match decisionSchema.
\* amount * pricing is a multiple of leverage in each, so that the quotient
\* of requiredMargin is exact.
ValidMenu ==
  { Decision("Buy", "BTC", BuyPayload(2, 3, 1), None, None),     \* margin 6
    Decision("Buy", "BNB", BuyPayload(2, -1, 1), None, None),    \* margin -2
    Decision("Buy", "SOL", None, None, None),                    \* no buy object
    Decision("Buy", "DOGE", BuyPayload(2, 3, 3), None, None),    \* leverage above the limit
    Decision("Buy", "ETH", BuyPayload(4, 4, 2), None, None),     \* notional 16, margin 8
    Decision("Sell", "ETH", None, Some([percentage |-> 50]), None),
    Decision("Sell", "BTC", None, None, None),                   \* no sell object
    Decision("Hold", "SOL", None, None, None),
    Decision("Hold", "BTC", None, None, Some([stopLoss |-> Some(1), takeProfit |-> Some(0)])) }

\* Decisions that decisionSchema rejects.
InvalidMenu ==
  { Decision("Buy", "BTC", BuyPayload(2, 3, 31), None, None),
    Decision("Buy", "BTC", BuyPayload(2, 3, 0), None, None),
    Decision("Sell", "ETH", None, Some([percentage |-> 101]), None),
    Decision("Sell", "ETH", None, Some([percentage |-> -1]), None) }

OracleMenu == ValidMenu \cup InvalidMenu

RECURSIVE SeqsUpTo(_, _)
SeqsUpTo(S, n) ==
  IF n = 0 THEN {<<>>}
  ELSE LET shorter == SeqsUpTo(S, n - 1)
       IN shorter \cup {Append(s, x) : s \in {t \in shorter : Len(t) = n - 1}, x \in S}

\* One decision more than the schema's array admits, each of them valid.
OversizeBatch ==
  [i \in 1..(MaxDecisions + 1) |-> Decision("Hold", "SOL", None, None, None)]

\* Raw outputs of the model behind generateObject.
OracleOutputs == SeqsUpTo(OracleMenu, MaxBatch) \cup {OversizeBatch}

\* The same outputs, shorter, for the cycles explored under every outage.
OracleOutputsAnyOutage == SeqsUpTo(OracleMenu, MaxBatchAnyOutage)

\* What the oracle can answer in the cycles run under both trading modes:
\* the decisions that reach the Execution Gateway, a Buy that the running
\* balance can turn away, a Sell without its object, and a Buy that the schema
\* rejects.
ModesMenu ==
  { Decision("Buy", "BTC", BuyPayload(2, 3, 1), None, None),
    Decision("Buy", "ETH", BuyPayload(4, 4, 2), None, None),
    Decision("Sell", "ETH", None, Some([percentage |-> 50]), None),
    Decision("Sell", "BTC", None, None, None),
    Decision("Hold", "BTC", None, None, Some([stopLoss |-> Some(1), takeProfit |-> Some(0)])),
    Decision("Buy", "BTC", BuyPayload(2, 3, 31), None, None) }

OracleOutputsModes == SeqsUpTo(ModesMenu, MaxBatchModes)

-----------------------------------------------------------------------------
(* The schema generateObject validates the output against                   *)

\* Variant: the buy and sell objects carry no min / max.
decisionSchema_NoBounds(d) ==
  /\ d.opeartion \in Opeartion
  /\ d.symbol \in Symbol

decisionSchema(d) ==
  /\ d.opeartion \in Opeartion
  /\ d.symbol \in Symbol
  /\ d.buy # None => d.buy[1].leverage >= MinLeverage /\ d.buy[1].leverage <= MaxLeverage
  /\ d.sell # None =>
       d.sell[1].percentage >= MinPercentage /\ d.sell[1].percentage <= MaxPercentage

schema(out) ==
  /\ Len(out) >= MinDecisions
  /\ Len(out) <= MaxDecisions
  /\ \A i \in DOMAIN out : decisionSchema(out[i])

-----------------------------------------------------------------------------
VARIABLES
  pc,                     \* where run() is
  tradingMode,            \* riskConfig.tradingMode
  firstRun,               \* what a finished run under the other trading mode was given and did, None if none
  feedDown,               \* the instruments whose snapshot fetch fails this cycle
  feedSilent,             \* the instruments whose feed never answers this cycle
  marketStates,           \* per supported symbol: "unissued", "pending", "ok" or "null"
  account,                \* accountInformationAndPerformance, None before the read
  userPrompt,             \* the symbols whose snapshots the prompt carries, None before
  oracleCalls,            \* number of generateObject calls issued
  decisions,              \* the oracle's decisions
  dailyLossCheck,         \* the verdict of the daily-loss gate, None before it
  idx,                    \* index of the decision the loop is at
  remainingAvailableCash,
  positionInfo,           \* the position found before a sell
  positionFetches,        \* the fetchPositions calls made, in order
  allTradingRecords,
  allChatMessages,
  gatewayCalls,           \* the calls made to the Execution Gateway, in order
  auditLog,               \* logTrade emissions
  appendCalls,            \* number of prisma.chat.create calls issued
  ledger,                 \* the CycleRecords persisted
  oracleOutput,           \* the raw object the model behind generateObject produced, None before
  cycles,                 \* invocations of run() side by side: where each is, its running balance
  venueCash,              \* the available cash the Account Gateway would report now
  thrown,                 \* the error run() threw, "none" if none
  loading,                \* ModelsView: the loading flag
  chats,                  \* ModelsView: the cycle records of the last answer taken
  viewPositions,          \* ModelsView: positions, the positions of the last answer taken
  activityCalls,          \* ModelsView: where each fetchActivity call is
  modelChat               \* ModelsView: what renderModelChat returned at the last render

\* The state of the activity view.
viewVars == <<loading, chats, viewPositions, activityCalls, modelChat>>

vars == <<pc, tradingMode, firstRun, viewVars, feedDown, feedSilent, oracleOutput, cycles, venueCash,
          marketStates, account, userPrompt, oracleCalls,
          decisions, dailyLossCheck, idx, remainingAvailableCash, positionInfo,
          positionFetches, allTradingRecords, allChatMessages, gatewayCalls, auditLog,
          appendCalls, ledger, thrown>>

riskConfig == getRiskConfig(tradingMode)

\* ModelsView after its useState calls, before the mount effect has run.
InitView ==
  /\ loading = TRUE
  /\ chats = <<>>
  /\ viewPositions = <<>>
  /\ activityCalls = [c \in 1..MaxActivityCalls |-> "idle"]
  /\ modelChat = [view |-> "loading", cards |-> <<>>]

InitWith(outages) ==
  /\ pc = "fetch"
  /\ tradingMode \in TradingModes
  /\ feedDown \in outages
  /\ feedSilent = {}
  /\ firstRun = None
  /\ InitView
  /\ marketStates = [s \in SeqToSet(supportedSymbols) |-> "pending"]
  /\ account = None
  /\ userPrompt = None
  /\ oracleCalls = 0
  /\ oracleOutput = None
  /\ decisions = <<>>
  /\ dailyLossCheck = None
  /\ idx = 0
  /\ remainingAvailableCash = 0
  /\ positionInfo = None
  /\ positionFetches = <<>>
  /\ allTradingRecords = <<>>
  /\ allChatMessages = <<>>
  /\ gatewayCalls = <<>>
  /\ auditLog = <<>>
  /\ appendCalls = 0
  /\ ledger = <<>>
  /\ thrown = "none"
  /\ cycles = [c \in 1..MaxCycles |-> IdleCycle]
  /\ venueCash \in {a.availableCash : a \in AccountStates}

Init == InitWith(FeedOutages)

InitAnyOutage == InitWith(AnyFeedOutages)

\* run() before supportedSymbols.map has called getCurrentMarketState, under
\* feeds that fail and feeds that never answer.
InitSnapshots ==
  /\ pc = "start"
  /\ tradingMode \in TradingModes
  /\ feedDown \in FeedOutages
  /\ feedSilent \in SilentFeeds
  /\ firstRun = None
  /\ InitView
  /\ marketStates = [s \in SeqToSet(supportedSymbols) |-> "unissued"]
  /\ account = None
  /\ userPrompt = None
  /\ oracleCalls = 0
  /\ oracleOutput = None
  /\ decisions = <<>>
  /\ dailyLossCheck = None
  /\ idx = 0
  /\ remainingAvailableCash = 0
  /\ positionInfo = None
  /\ positionFetches = <<>>
  /\ allTradingRecords = <<>>
  /\ allChatMessages = <<>>
  /\ gatewayCalls = <<>>
  /\ auditLog = <<>>
  /\ appendCalls = 0
  /\ ledger = <<>>
  /\ thrown = "none"
  /\ cycles = [c \in 1..MaxCycles |-> IdleCycle]
  /\ venueCash \in {a.availableCash : a \in AccountStates}

\* Variant: the error is swallowed and run() returns.
Throw_Swallowed(what) ==
  /\ pc' = "done"
  /\ thrown' = "none"

\* run() rethrows from its outer catch.
Throw(what) ==
  /\ pc' = "failed"
  /\ thrown' = what

-----------------------------------------------------------------------------
(* Snapshot collection, account read, prompt build                          *)

\* Variant: a loop that awaits each fetch before it issues the next.
IssueFetches_OneAtATime ==
  /\ pc = "start"
  /\ pc' = "fetch"
  /\ marketStates' = [marketStates EXCEPT ![supportedSymbols[1]] = "pending"]
  /\ UNCHANGED <<tradingMode, firstRun, viewVars, feedDown, feedSilent, oracleOutput, cycles, venueCash,
                 account, userPrompt, oracleCalls, decisions,
                 dailyLossCheck, idx, remainingAvailableCash, positionInfo, positionFetches,
                 allTradingRecords, allChatMessages, gatewayCalls, auditLog, appendCalls,
                 ledger, thrown>>

\* supportedSymbols.map runs every callback up to its first await: the five
\* getCurrentMarketState calls are made before Promise.all is awaited.
IssueFetches ==
  /\ pc = "start"
  /\ pc' = "fetch"
  /\ marketStates' = [s \in SeqToSet(supportedSymbols) |-> "pending"]
  /\ UNCHANGED <<tradingMode, firstRun, viewVars, feedDown, feedSilent, oracleOutput, cycles, venueCash,
                 account, userPrompt, oracleCalls, decisions,
                 dailyLossCheck, idx, remainingAvailableCash, positionInfo, positionFetches,
                 allTradingRecords, allChatMessages, gatewayCalls, auditLog, appendCalls,
                 ledger, thrown>>

\* The gateway's own timeout on a request the feed never answers: the
\* request is rejected, and getCurrentMarketState with it.
GatewayTimeout(s) ==
  /\ pc = "fetch"
  /\ marketStates[s] = "pending"
  /\ s \in feedSilent
  /\ s \notin feedDown
  /\ feedDown' = feedDown \cup {s}
  /\ UNCHANGED <<pc, tradingMode, firstRun, viewVars, feedSilent, oracleOutput, cycles, venueCash,
                 marketStates, account, userPrompt, oracleCalls, decisions,
                 dailyLossCheck, idx, remainingAvailableCash, positionInfo, positionFetches,
                 allTradingRecords, allChatMessages, gatewayCalls, auditLog, appendCalls,
                 ledger, thrown>>

FetchOk(s) ==
  /\ pc = "fetch"
  /\ marketStates[s] = "pending"
  /\ s \notin feedDown \cup feedSilent
  /\ marketStates' = [marketStates EXCEPT ![s] = "ok"]
  /\ UNCHANGED <<pc, tradingMode, firstRun, viewVars, feedDown, feedSilent, oracleOutput, cycles, venueCash,
                 account, userPrompt, oracleCalls, decisions,
                 dailyLossCheck, idx, remainingAvailableCash, positionInfo, positionFetches,
                 allTradingRecords, allChatMessages, gatewayCalls, auditLog, appendCalls,
                 ledger, thrown>>

\* Variant: the per-symbol catch is missing and the rejection fails Promise.all.
FetchFail_Fatal(s) ==
  /\ pc = "fetch"
  /\ marketStates[s] = "pending"
  /\ s \in feedDown
  /\ pc' = "failed"
  /\ thrown' = "fetch"
  /\ UNCHANGED <<tradingMode, firstRun, viewVars, feedDown, feedSilent, oracleOutput, cycles, venueCash,
                 marketStates, account, userPrompt, oracleCalls,
                 decisions, dailyLossCheck, idx, remainingAvailableCash, positionInfo,
                 positionFetches, allTradingRecords, allChatMessages, gatewayCalls,
                 auditLog, appendCalls, ledger>>

\* getCurrentMarketState rejects; the catch logs and yields null.
FetchFail(s) ==
  /\ pc = "fetch"
  /\ marketStates[s] = "pending"
  /\ s \in feedDown
  /\ marketStates' = [marketStates EXCEPT ![s] = "null"]
  /\ UNCHANGED <<pc, tradingMode, firstRun, viewVars, feedDown, feedSilent, oracleOutput, cycles, venueCash,
                 account, userPrompt, oracleCalls, decisions,
                 dailyLossCheck, idx, remainingAvailableCash, positionInfo, positionFetches,
                 allTradingRecords, allChatMessages, gatewayCalls, auditLog, appendCalls,
                 ledger, thrown>>

AllFetched == \A s \in DOMAIN marketStates : marketStates[s] \in {"ok", "null"}

validMarketStates == {s \in DOMAIN marketStates : marketStates[s] = "ok"}

\* Promise.all has resolved; getAccountInformationAndPerformance answers.
GetAccountOk ==
  /\ pc = "fetch"
  /\ AllFetched
  /\ \E a \in AccountStates : account' = Some(a)
  /\ pc' = "prompt"
  /\ UNCHANGED <<tradingMode, firstRun, viewVars, feedDown, feedSilent, oracleOutput, cycles, venueCash,
                 marketStates, userPrompt, oracleCalls, decisions,
                 dailyLossCheck, idx, remainingAvailableCash, positionInfo, positionFetches,
                 allTradingRecords, allChatMessages, gatewayCalls, auditLog, appendCalls,
                 ledger, thrown>>

GetAccountFail ==
  /\ pc = "fetch"
  /\ AllFetched
  /\ Throw("account")
  /\ UNCHANGED <<tradingMode, firstRun, viewVars, feedDown, feedSilent, oracleOutput, cycles, venueCash,
                 marketStates, account, userPrompt, oracleCalls,
                 decisions, dailyLossCheck, idx, remainingAvailableCash, positionInfo, positionFetches,
                 allTradingRecords, allChatMessages, gatewayCalls, auditLog, appendCalls,
                 ledger>>

\* generateUserPrompt resolves; run() builds the request and calls generateObject.
BuildPromptOk ==
  /\ pc = "prompt"
  /\ userPrompt' = Some(validMarketStates)
  /\ oracleCalls' = oracleCalls + 1
  /\ pc' = "oracle"
  /\ UNCHANGED <<tradingMode, firstRun, viewVars, feedDown, feedSilent, oracleOutput, cycles, venueCash,
                 marketStates, account, decisions, dailyLossCheck,
                 idx, remainingAvailableCash, positionInfo, positionFetches, allTradingRecords,
                 allChatMessages, gatewayCalls, auditLog, appendCalls, ledger, thrown>>

BuildPromptFail ==
  /\ pc = "prompt"
  /\ Throw("prompt")
  /\ UNCHANGED <<tradingMode, firstRun, viewVars, feedDown, feedSilent, oracleOutput, cycles, venueCash,
                 marketStates, account, userPrompt, oracleCalls,
                 decisions, dailyLossCheck, idx, remainingAvailableCash, positionInfo, positionFetches,
                 allTradingRecords, allChatMessages, gatewayCalls, auditLog, appendCalls,
                 ledger>>

-----------------------------------------------------------------------------
(* Risk Policy                                                              *)

Verdict(ok, why) == [allowed |-> ok, reason |-> why]

\* Denies a leverage above the limit, a margin above the balance, a notional
\* above the configured share of the capital it is given. The comparisons are
\* cross-multiplied, leverage being positive.
checkBuyRisk(amount, price, leverage, currentBalance, config) ==
  IF leverage > config.maxLeverage
    THEN Verdict(FALSE, "Leverage exceeds limit")
  ELSE IF amount * price > currentBalance * leverage
    THEN Verdict(FALSE, "Insufficient balance")
  ELSE IF amount * price * 100 > config.maxPositionSizePercent * currentBalance
    THEN Verdict(FALSE, "Position size exceeds limit")
  ELSE Verdict(TRUE, "")

\* Denies when todayPnL / initialCapital is below -maxDailyLossPercent / 100.
\* A division by zero gives -Infinity for a loss and NaN or Infinity otherwise.
checkDailyLossLimit(todayPnL, initialCapital, config) ==
  IF initialCapital > 0
    THEN IF todayPnL * 100 < -(config.maxDailyLossPercent * initialCapital)
           THEN Verdict(FALSE, "Daily loss limit reached")
           ELSE Verdict(TRUE, "")
  ELSE IF initialCapital = 0 /\ todayPnL < 0
    THEN Verdict(FALSE, "Daily loss limit reached")
  ELSE Verdict(TRUE, "")

\* Variant: only the first position counts towards today's P&L.
totalUnrealizedPnl_FirstOnly(positions) ==
  IF positions = <<>> THEN 0 ELSE JsOr(Head(positions).unrealizedPnl, Some(0))[1]

\* positions.reduce((sum, pos) => sum + (pos.unrealizedPnl || 0), 0)
RECURSIVE totalUnrealizedPnl(_)
totalUnrealizedPnl(positions) ==
  IF positions = <<>> THEN 0
  ELSE JsOr(Head(positions).unrealizedPnl, Some(0))[1] + totalUnrealizedPnl(Tail(positions))

-----------------------------------------------------------------------------
(* Record construction                                                      *)

BuyField(decision, k) == IF decision.buy = None THEN None ELSE Some(decision.buy[1][k])

\* The columns of a trading row; the ones the data leaves out are null.
createTradingData(decision, overrides) ==
  LET base == [symbol |-> decision.symbol,
               opeartion |-> decision.opeartion,
               pricing |-> JsOr(Field(overrides, "pricing"),
                                JsOr(BuyField(decision, "pricing"), None)),
               amount |-> JsOr(Field(overrides, "amount"),
                               JsOr(BuyField(decision, "amount"), None)),
               leverage |-> JsOr(BuyField(decision, "leverage"), None),
               stopLoss |-> None,
               takeProfit |-> None]
  IN [k \in DOMAIN base |-> IF k \in DOMAIN overrides THEN overrides[k] ELSE base[k]]

Message(i, kind, text) == [i |-> i, kind |-> kind, text |-> text]

\* The row prisma.chat.create writes, with its nested tradings.
CycleRecord(chat, prompt, tradings) ==
  [chat |-> chat, userPrompt |-> prompt, tradings |-> tradings]

\* Variant: the blocked cycle records the operations as proposed.
blockedTradings_AsProposed(ds) ==
  [i \in DOMAIN ds |-> createTradingData(ds[i], <<>>)]

\* decisions.map(d => createTradingData(d, { opeartion: Hold }))
blockedTradings(ds) ==
  [i \in DOMAIN ds |-> createTradingData(ds[i], [opeartion |-> "Hold"])]

-----------------------------------------------------------------------------
(* Oracle call and daily-loss gate                                          *)

\* generateObject resolves with an object that matches the schema; the gate is
\* evaluated in the same turn, up to the next await.
OracleRespond(outputs) ==
  /\ pc = "oracle"
  /\ \E out \in outputs :
       /\ schema(out)
       /\ oracleOutput' = Some(out)
       /\ decisions' = out
  /\ LET acc == account[1]
         check == checkDailyLossLimit(totalUnrealizedPnl(acc.positions),
                                      acc.totalCashValue, riskConfig)
     IN /\ dailyLossCheck' = Some(check)
        /\ IF ~check.allowed
             THEN /\ pc' = "blockedWrite"
                  /\ appendCalls' = appendCalls + 1
                  /\ UNCHANGED <<idx, remainingAvailableCash>>
             ELSE /\ pc' = "loop"
                  /\ remainingAvailableCash' = acc.availableCash
                  /\ idx' = 1
                  /\ UNCHANGED appendCalls
  /\ UNCHANGED <<tradingMode, firstRun, viewVars, feedDown, feedSilent, cycles, venueCash,
                 marketStates, account, userPrompt, oracleCalls,
                 positionInfo, positionFetches, allTradingRecords, allChatMessages, gatewayCalls, auditLog,
                 ledger, thrown>>

OracleValid == OracleRespond(OracleOutputs)

OracleValidAnyOutage == OracleRespond(OracleOutputsAnyOutage)

OracleValidModes == OracleRespond(OracleOutputsModes)

\* generateObject rejects: the output does not match the schema.
OracleReject(outputs) ==
  /\ pc = "oracle"
  /\ \E out \in outputs :
       /\ ~schema(out)
       /\ oracleOutput' = Some(out)
  /\ Throw("oracle")
  /\ UNCHANGED <<tradingMode, firstRun, viewVars, feedDown, feedSilent, cycles, venueCash,
                 marketStates, account, userPrompt, oracleCalls,
                 decisions, dailyLossCheck, idx, remainingAvailableCash, positionInfo, positionFetches,
                 allTradingRecords, allChatMessages, gatewayCalls, auditLog, appendCalls,
                 ledger>>

OracleSchemaMismatch == OracleReject(OracleOutputs)

OracleSchemaMismatchAnyOutage == OracleReject(OracleOutputsAnyOutage)

OracleSchemaMismatchModes == OracleReject(OracleOutputsModes)

\* Variant: the answer that arrives after the timeout is taken up.
OracleLateAnswer_Processed ==
  /\ pc = "failed"
  /\ thrown = "oracle"
  /\ oracleOutput = None
  /\ \E out \in OracleOutputs :
       /\ schema(out)
       /\ oracleOutput' = Some(out)
       /\ decisions' = out
  /\ pc' = "loop"
  /\ thrown' = "none"
  /\ idx' = 1
  /\ remainingAvailableCash' = account[1].availableCash
  /\ UNCHANGED <<tradingMode, firstRun, viewVars, feedDown, feedSilent, cycles, venueCash,
                 marketStates, account, userPrompt, oracleCalls, dailyLossCheck,
                 positionInfo, positionFetches, allTradingRecords, allChatMessages,
                 gatewayCalls, auditLog, appendCalls, ledger>>

\* generateObject settles after timeoutPromise has rejected: Promise.race has
\* settled already and run() has thrown, so nothing reads the answer.
OracleLateAnswer ==
  /\ pc = "failed"
  /\ thrown = "oracle"
  /\ oracleOutput = None
  /\ \E out \in OracleOutputs : oracleOutput' = Some(out)
  /\ UNCHANGED <<pc, tradingMode, firstRun, viewVars, feedDown, feedSilent, cycles, venueCash,
                 marketStates, account, userPrompt, oracleCalls, decisions, dailyLossCheck,
                 idx, remainingAvailableCash, positionInfo, positionFetches,
                 allTradingRecords, allChatMessages, gatewayCalls, auditLog, appendCalls,
                 ledger, thrown>>

\* Variant: a timed-out call is repeated, as the unused maxRetries suggests.
OracleTimeout_Retry ==
  /\ pc = "oracle"
  /\ IF oracleCalls < 3
       THEN oracleCalls' = oracleCalls + 1 /\ UNCHANGED <<pc, thrown>>
       ELSE Throw("oracle") /\ UNCHANGED oracleCalls
  /\ UNCHANGED <<tradingMode, firstRun, viewVars, feedDown, feedSilent, oracleOutput, cycles, venueCash,
                 marketStates, account, userPrompt,
                 decisions, dailyLossCheck, idx, remainingAvailableCash, positionInfo, positionFetches,
                 allTradingRecords, allChatMessages, gatewayCalls, auditLog, appendCalls,
                 ledger>>

\* timeoutPromise rejects first.
OracleTimeout ==
  /\ pc = "oracle"
  /\ Throw("oracle")
  /\ UNCHANGED <<tradingMode, firstRun, viewVars, feedDown, feedSilent, oracleOutput, cycles, venueCash,
                 marketStates, account, userPrompt, oracleCalls,
                 decisions, dailyLossCheck, idx, remainingAvailableCash, positionInfo, positionFetches,
                 allTradingRecords, allChatMessages, gatewayCalls, auditLog, appendCalls,
                 ledger>>

\* Variant: the blocked branch lacks its return and falls into the loop.
BlockedWriteOk_FallsThrough ==
  /\ pc = "blockedWrite"
  /\ ledger' = Append(ledger,
                 CycleRecord(<<Message(0, "blockedByRiskControl", dailyLossCheck[1].reason)>>,
                             userPrompt[1], blockedTradings(decisions)))
  /\ pc' = "loop"
  /\ idx' = 1
  /\ remainingAvailableCash' = account[1].availableCash
  /\ UNCHANGED <<tradingMode, firstRun, viewVars, feedDown, feedSilent, oracleOutput, cycles, venueCash,
                 marketStates, account, userPrompt, oracleCalls,
                 decisions, dailyLossCheck, positionInfo, positionFetches,
                 allTradingRecords, allChatMessages, gatewayCalls, auditLog, appendCalls,
                 thrown>>

\* The create of the blocked cycle: one row with its tradings, or nothing.
BlockedWriteOk ==
  /\ pc = "blockedWrite"
  /\ ledger' = Append(ledger,
                 CycleRecord(<<Message(0, "blockedByRiskControl", dailyLossCheck[1].reason)>>,
                             userPrompt[1], blockedTradings(decisions)))
  /\ pc' = "done"
  /\ UNCHANGED <<tradingMode, firstRun, viewVars, feedDown, feedSilent, oracleOutput, cycles, venueCash,
                 marketStates, account, userPrompt, oracleCalls,
                 decisions, dailyLossCheck, idx, remainingAvailableCash, positionInfo, positionFetches,
                 allTradingRecords, allChatMessages, gatewayCalls, auditLog, appendCalls,
                 thrown>>

BlockedWriteFail ==
  /\ pc = "blockedWrite"
  /\ Throw("ledger")
  /\ UNCHANGED <<tradingMode, firstRun, viewVars, feedDown, feedSilent, oracleOutput, cycles, venueCash,
                 marketStates, account, userPrompt, oracleCalls,
                 decisions, dailyLossCheck, idx, remainingAvailableCash, positionInfo, positionFetches,
                 allTradingRecords, allChatMessages, gatewayCalls, auditLog, appendCalls,
                 ledger>>

-----------------------------------------------------------------------------
(* Execution Gateway and position lookup: what they can answer              *)

tradingSymbol(symbol) ==
  [BTC |-> "BTC/USDT", ETH |-> "ETH/USDT", SOL |-> "SOL/USDT", BNB |-> "BNB/USDT",
   DOGE |-> "DOGE/USDT"][symbol]

Result(ok, price, amount, err) ==
  [success |-> ok, executedPrice |-> price, executedAmount |-> amount, error |-> err]

\* buy() answers with a fill, here one tick above the requested price, or with an error.
BuyResults(b) ==
  { Result(TRUE, Some(b.pricing + 1), Some(b.amount), None),
    Result(FALSE, None, None, Some("Order rejected")) }

SellResults ==
  { Result(TRUE, Some(3), Some(1), None),
    Result(FALSE, None, None, Some("No open position")) }

SlTpResults == { [success |-> TRUE, error |-> None], [success |-> FALSE, error |-> Some("Rejected")] }

\* fetchPositions() then find(): a position, none, or the fetch throws.
PositionLookups == {"found", "none", "threw"}

foundPosition == [contracts |-> 1, leverage |-> 5]

Call(op, i, symbol, args, res) ==
  [op |-> op, i |-> i, symbol |-> symbol, args |-> args, success |-> res.success,
   result |-> res]

\* The entry logTrade emits.
Trade(action, symbol, amount, price, reason) ==
  [action |-> action, symbol |-> symbol, amount |-> amount, price |-> price,
   reason |-> reason]

-----------------------------------------------------------------------------
(* Per-decision processing                                                  *)

\* if (object.chat) allChatMessages.push(`[${object.symbol}] ${object.chat}`)
withChat(messages, i, object) ==
  IF object.chat # "" THEN Append(messages, Message(i, "chat", object.chat)) ELSE messages

\* !object.buy || pricing == null || amount == null || leverage == null; the
\* three are numbers whenever the schema let the buy object through.
buyFieldsMissing(object) == object.buy = None

\* (amount * pricing) / leverage
requiredMargin(b) == (b.amount * b.pricing) \div b.leverage

insufficientMargin(margin, cash) == margin > cash

\* Variant: a filled Buy deducts what the fill cost, not the requested margin.
cashAfterBuy_FillValue(cash, margin, buyResult) ==
  IF buyResult.success
    THEN cash - buyResult.executedPrice[1] * buyResult.executedAmount[1]
    ELSE cash

\* Variant: the margin is deducted whether the Buy was filled or not.
cashAfterBuy_Always(cash, margin, buyResult) == cash - margin

\* Variant: the margin of a filled Buy is not deducted.
cashAfterBuy_NoDeduct(cash, margin, buyResult) == cash

\* if (buyResult?.success) remainingAvailableCash -= requiredMargin
\* Variant: the margin of a fill is deducted in live mode only.
cashAfterBuy_LiveOnly(cash, margin, buyResult) ==
  IF buyResult.success /\ tradingMode = "live" THEN cash - margin ELSE cash

cashAfterBuy(cash, margin, buyResult) == IF buyResult.success THEN cash - margin ELSE cash

missingBuyRecord(object) ==
  createTradingData(object, [opeartion |-> "Hold",
                             pricing |-> JsOr(BuyField(object, "pricing"), None),
                             amount |-> JsOr(BuyField(object, "amount"), None),
                             leverage |-> JsOr(BuyField(object, "leverage"), None)])

riskDeniedRecord(object) ==
  createTradingData(object, [pricing |-> Some(object.buy[1].pricing),
                             amount |-> Some(object.buy[1].amount),
                             leverage |-> Some(object.buy[1].leverage)])

insufficientMarginRecord(object) == createTradingData(object, [opeartion |-> "Hold"])

buyRecord(object, buyResult) ==
  createTradingData(object,
    [pricing |-> JsOr(buyResult.executedPrice, Some(object.buy[1].pricing)),
     amount |-> JsOr(buyResult.executedAmount, Some(object.buy[1].amount)),
     leverage |-> Some(object.buy[1].leverage)])

buyTrade(mode, object, buyResult) ==
  Trade(IF mode = "live" THEN "buy" ELSE "dry-run-buy", tradingSymbol(object.symbol),
        Some(object.buy[1].amount), buyResult.executedPrice,
        IF buyResult.success THEN Some("Success") ELSE buyResult.error)

\* Variant: the loop does not wait for the decision after the one at hand.
NextDecision_SkipsOne ==
  /\ idx' = idx + 2
  /\ IF idx + 2 > Len(decisions)
       THEN pc' = "write" /\ appendCalls' = appendCalls + 1
       ELSE pc' = "loop" /\ UNCHANGED appendCalls

\* Variant: the loop is left after the decision at hand (`break`).
NextDecision_EarlyWrite ==
  /\ idx' = idx + 1
  /\ pc' = "write"
  /\ appendCalls' = appendCalls + 1

\* `continue`: the next decision, or the create after the loop.
NextDecision ==
  /\ idx' = idx + 1
  /\ IF idx + 1 > Len(decisions)
       THEN pc' = "write" /\ appendCalls' = appendCalls + 1
       ELSE pc' = "loop" /\ UNCHANGED appendCalls

\* Variant: the per-trade risk check is skipped.
buyGate_SkipRisk(object, cash, config) ==
  IF buyFieldsMissing(object) THEN "missing"
  ELSE IF insufficientMargin(requiredMargin(object.buy[1]), cash) THEN "margin"
  ELSE "execute"

\* The ordered validation of a Buy: what run() does with the decision.
buyGate(object, cash, config) ==
  IF buyFieldsMissing(object) THEN "missing"
  ELSE IF ~checkBuyRisk(object.buy[1].amount, object.buy[1].pricing,
                        object.buy[1].leverage, cash, config).allowed THEN "risk"
  ELSE IF insufficientMargin(requiredMargin(object.buy[1]), cash) THEN "margin"
  ELSE "execute"

ProcessBuy ==
  /\ pc = "loop"
  /\ decisions[idx].opeartion = "Buy"
  /\ LET object == decisions[idx]
         messages == withChat(allChatMessages, idx, object)
         gate == buyGate(object, remainingAvailableCash, riskConfig)
     IN CASE gate = "missing" ->
               /\ allTradingRecords' = Append(allTradingRecords, missingBuyRecord(object))
               /\ allChatMessages' = messages
               /\ UNCHANGED <<remainingAvailableCash, gatewayCalls, auditLog>>
          [] gate = "risk" ->
               /\ allChatMessages' =
                    Append(messages,
                           Message(idx, "blocked",
                                   checkBuyRisk(object.buy[1].amount, object.buy[1].pricing,
                                                object.buy[1].leverage,
                                                remainingAvailableCash, riskConfig).reason))
               /\ allTradingRecords' = Append(allTradingRecords, riskDeniedRecord(object))
               /\ UNCHANGED <<remainingAvailableCash, gatewayCalls, auditLog>>
          [] gate = "margin" ->
               /\ allChatMessages' =
                    Append(messages, Message(idx, "blocked", "Insufficient remaining margin"))
               /\ allTradingRecords' =
                    Append(allTradingRecords, insufficientMarginRecord(object))
               /\ UNCHANGED <<remainingAvailableCash, gatewayCalls, auditLog>>
          [] gate = "execute" ->
               \E buyResult \in BuyResults(object.buy[1]) :
                 /\ gatewayCalls' =
                      Append(gatewayCalls,
                             Call("buy", idx, tradingSymbol(object.symbol),
                                  [amount |-> object.buy[1].amount,
                                   leverage |-> object.buy[1].leverage],
                                  buyResult))
                 /\ auditLog' = Append(auditLog, buyTrade(tradingMode, object, buyResult))
                 /\ remainingAvailableCash' =
                      cashAfterBuy(remainingAvailableCash,
                                   requiredMargin(object.buy[1]), buyResult)
                 /\ allChatMessages' = messages
                 /\ allTradingRecords' =
                      Append(allTradingRecords, buyRecord(object, buyResult))
  /\ NextDecision
  /\ UNCHANGED <<tradingMode, firstRun, viewVars, feedDown, feedSilent, oracleOutput, cycles, venueCash,
                 marketStates, account, userPrompt, oracleCalls,
                 decisions, dailyLossCheck, positionInfo, positionFetches, ledger, thrown>>

\* !object.sell || object.sell.percentage == null
sellFieldsMissing(object) == object.sell = None

missingSellRecord(object) == createTradingData(object, [opeartion |-> "Hold"])

\* positionInfo?.leverage || null
positionLeverage(info) == IF info = None THEN None ELSE JsOr(Some(info[1].leverage), None)

sellRecord(object, sellResult, info) ==
  createTradingData(object,
    [pricing |-> sellResult.executedPrice,
     amount |-> JsOr(sellResult.executedAmount, Some(0)),
     leverage |-> positionLeverage(info)])

sellTrade(mode, object, sellResult) ==
  Trade(IF mode = "live" THEN "sell" ELSE "dry-run-sell", tradingSymbol(object.symbol),
        JsOr(sellResult.executedAmount, Some(0)), sellResult.executedPrice,
        IF sellResult.success THEN Some("Success") ELSE sellResult.error)

\* Variant: a Sell without percentage is skipped without a record.
ProcessSellMissing_NoRecord ==
  /\ pc = "loop"
  /\ decisions[idx].opeartion = "Sell"
  /\ sellFieldsMissing(decisions[idx])
  /\ allChatMessages' = withChat(allChatMessages, idx, decisions[idx])
  /\ NextDecision
  /\ UNCHANGED <<tradingMode, firstRun, viewVars, feedDown, feedSilent, oracleOutput, cycles, venueCash,
                 marketStates, account, userPrompt, oracleCalls,
                 decisions, dailyLossCheck, remainingAvailableCash, positionInfo,
                 positionFetches, allTradingRecords, gatewayCalls, auditLog, ledger, thrown>>

ProcessSellMissing ==
  /\ pc = "loop"
  /\ decisions[idx].opeartion = "Sell"
  /\ sellFieldsMissing(decisions[idx])
  /\ allChatMessages' = withChat(allChatMessages, idx, decisions[idx])
  /\ allTradingRecords' = Append(allTradingRecords, missingSellRecord(decisions[idx]))
  /\ NextDecision
  /\ UNCHANGED <<tradingMode, firstRun, viewVars, feedDown, feedSilent, oracleOutput, cycles, venueCash,
                 marketStates, account, userPrompt, oracleCalls,
                 decisions, dailyLossCheck, remainingAvailableCash, positionInfo,
                 positionFetches, gatewayCalls, auditLog, ledger, thrown>>

\* Variant: the account is read again along with the positions.
LookupPosition_RereadsAccount ==
  /\ pc = "loop"
  /\ decisions[idx].opeartion = "Sell"
  /\ ~sellFieldsMissing(decisions[idx])
  /\ allChatMessages' = withChat(allChatMessages, idx, decisions[idx])
  /\ \E outcome \in PositionLookups :
       /\ positionFetches' = Append(positionFetches, [i |-> idx, outcome |-> outcome])
       /\ positionInfo' = IF outcome = "found" THEN Some(foundPosition) ELSE None
  /\ \E a \in AccountStates : account' = Some(a)
  /\ pc' = "sell"
  /\ UNCHANGED <<tradingMode, firstRun, viewVars, feedDown, feedSilent, oracleOutput, cycles, venueCash,
                 marketStates, userPrompt, oracleCalls,
                 decisions, dailyLossCheck, idx, remainingAvailableCash, allTradingRecords,
                 gatewayCalls, auditLog, appendCalls, ledger, thrown>>

\* Variant: fetchPositions() is awaited outside a try block.
LookupPosition_Fatal ==
  /\ pc = "loop"
  /\ decisions[idx].opeartion = "Sell"
  /\ ~sellFieldsMissing(decisions[idx])
  /\ allChatMessages' = withChat(allChatMessages, idx, decisions[idx])
  /\ \E outcome \in PositionLookups :
       /\ positionFetches' = Append(positionFetches, [i |-> idx, outcome |-> outcome])
       /\ IF outcome = "threw"
            THEN Throw("lookup") /\ UNCHANGED positionInfo
            ELSE /\ positionInfo' = IF outcome = "found" THEN Some(foundPosition) ELSE None
                 /\ pc' = "sell"
                 /\ UNCHANGED thrown
  /\ UNCHANGED <<tradingMode, firstRun, viewVars, feedDown, feedSilent, oracleOutput, cycles, venueCash,
                 marketStates, account, userPrompt, oracleCalls,
                 decisions, dailyLossCheck, idx, remainingAvailableCash, allTradingRecords,
                 gatewayCalls, auditLog, appendCalls, ledger>>

\* The try block around fetchPositions(); a throw leaves positionInfo null.
LookupPosition ==
  /\ pc = "loop"
  /\ decisions[idx].opeartion = "Sell"
  /\ ~sellFieldsMissing(decisions[idx])
  /\ allChatMessages' = withChat(allChatMessages, idx, decisions[idx])
  /\ \E outcome \in PositionLookups :
       /\ positionFetches' = Append(positionFetches, [i |-> idx, outcome |-> outcome])
       /\ positionInfo' = IF outcome = "found" THEN Some(foundPosition) ELSE None
  /\ pc' = "sell"
  /\ UNCHANGED <<tradingMode, firstRun, viewVars, feedDown, feedSilent, oracleOutput, cycles, venueCash,
                 marketStates, account, userPrompt, oracleCalls,
                 decisions, dailyLossCheck, idx, remainingAvailableCash, allTradingRecords,
                 gatewayCalls, auditLog, appendCalls, ledger, thrown>>

\* Variant: without a position found by the lookup the sell is not sent.
ExecuteSell_NeedsPosition ==
  /\ pc = "sell"
  /\ LET object == decisions[idx]
     IN IF positionInfo = None
          THEN /\ allTradingRecords' =
                    Append(allTradingRecords, createTradingData(object, [opeartion |-> "Hold"]))
               /\ UNCHANGED <<gatewayCalls, auditLog>>
          ELSE \E sellResult \in SellResults :
                 /\ gatewayCalls' =
                      Append(gatewayCalls,
                             Call("sell", idx, tradingSymbol(object.symbol),
                                  [percentage |-> object.sell[1].percentage], sellResult))
                 /\ auditLog' = Append(auditLog, sellTrade(tradingMode, object, sellResult))
                 /\ allTradingRecords' =
                      Append(allTradingRecords, sellRecord(object, sellResult, positionInfo))
  /\ positionInfo' = None
  /\ NextDecision
  /\ UNCHANGED <<tradingMode, firstRun, viewVars, feedDown, feedSilent, oracleOutput, cycles, venueCash,
                 marketStates, account, userPrompt, oracleCalls,
                 decisions, dailyLossCheck, remainingAvailableCash, positionFetches,
                 allChatMessages, ledger, thrown>>

\* Variant: a failed sell aborts the cycle.
ExecuteSell_ThrowOnFailure ==
  /\ pc = "sell"
  /\ LET object == decisions[idx]
     IN \E sellResult \in SellResults :
          /\ gatewayCalls' =
               Append(gatewayCalls,
                      Call("sell", idx, tradingSymbol(object.symbol),
                           [percentage |-> object.sell[1].percentage], sellResult))
          /\ auditLog' = Append(auditLog, sellTrade(tradingMode, object, sellResult))
          /\ IF sellResult.success
               THEN /\ allTradingRecords' =
                         Append(allTradingRecords,
                                sellRecord(object, sellResult, positionInfo))
                    /\ NextDecision
                    /\ UNCHANGED thrown
               ELSE /\ Throw("execution")
                    /\ UNCHANGED <<allTradingRecords, idx, appendCalls>>
  /\ positionInfo' = None
  /\ UNCHANGED <<tradingMode, firstRun, viewVars, feedDown, feedSilent, oracleOutput, cycles, venueCash,
                 marketStates, account, userPrompt, oracleCalls,
                 decisions, dailyLossCheck, remainingAvailableCash, positionFetches,
                 allChatMessages, ledger>>

ExecuteSell ==
  /\ pc = "sell"
  /\ LET object == decisions[idx]
     IN \E sellResult \in SellResults :
          /\ gatewayCalls' =
               Append(gatewayCalls,
                      Call("sell", idx, tradingSymbol(object.symbol),
                           [percentage |-> object.sell[1].percentage], sellResult))
          /\ auditLog' = Append(auditLog, sellTrade(tradingMode, object, sellResult))
          /\ allTradingRecords' =
               Append(allTradingRecords, sellRecord(object, sellResult, positionInfo))
  /\ positionInfo' = None
  /\ NextDecision
  /\ UNCHANGED <<tradingMode, firstRun, viewVars, feedDown, feedSilent, oracleOutput, cycles, venueCash,
                 marketStates, account, userPrompt, oracleCalls,
                 decisions, dailyLossCheck, remainingAvailableCash, positionFetches,
                 allChatMessages, ledger, thrown>>

\* adjustProfit != null && (stopLoss != null || takeProfit != null)
shouldAdjustProfit(object) ==
  /\ object.adjustProfit # None
  /\ \/ object.adjustProfit[1].stopLoss # None
     \/ object.adjustProfit[1].takeProfit # None

AdjustField(object, k) ==
  IF object.adjustProfit = None THEN None ELSE object.adjustProfit[1][k]

holdRecord(object) ==
  createTradingData(object, [stopLoss |-> JsOr(AdjustField(object, "stopLoss"), None),
                             takeProfit |-> JsOr(AdjustField(object, "takeProfit"), None)])

ProcessHold ==
  /\ pc = "loop"
  /\ decisions[idx].opeartion = "Hold"
  /\ LET object == decisions[idx]
     IN /\ IF shouldAdjustProfit(object)
             THEN \E slTpResult \in SlTpResults :
                    gatewayCalls' =
                      Append(gatewayCalls,
                             Call("setProtective", idx, tradingSymbol(object.symbol),
                                  [stopLoss |-> object.adjustProfit[1].stopLoss,
                                   takeProfit |-> object.adjustProfit[1].takeProfit],
                                  slTpResult))
             ELSE UNCHANGED gatewayCalls
        /\ allChatMessages' = withChat(allChatMessages, idx, object)
        /\ allTradingRecords' = Append(allTradingRecords, holdRecord(object))
  /\ NextDecision
  /\ UNCHANGED <<tradingMode, firstRun, viewVars, feedDown, feedSilent, oracleOutput, cycles, venueCash,
                 marketStates, account, userPrompt, oracleCalls,
                 decisions, dailyLossCheck, remainingAvailableCash, positionInfo,
                 positionFetches, auditLog, ledger, thrown>>

-----------------------------------------------------------------------------
(* Ledger write                                                             *)

\* allChatMessages.join("\n\n"), or "<no chat>"
combinedChat(messages) ==
  IF Len(messages) > 0 THEN messages ELSE <<Message(0, "chat", "<no chat>")>>

LedgerWriteOk ==
  /\ pc = "write"
  /\ ledger' = Append(ledger, CycleRecord(combinedChat(allChatMessages), userPrompt[1],
                                          allTradingRecords))
  /\ pc' = "done"
  /\ UNCHANGED <<tradingMode, firstRun, viewVars, feedDown, feedSilent, oracleOutput, cycles, venueCash,
                 marketStates, account, userPrompt, oracleCalls,
                 decisions, dailyLossCheck, idx, remainingAvailableCash, positionInfo,
                 positionFetches, allTradingRecords, allChatMessages, gatewayCalls,
                 auditLog, appendCalls, thrown>>

\* Variant: the row is created before its tradings, and stays when they fail.
LedgerWriteFail_Partial ==
  /\ pc = "write"
  /\ ledger' = Append(ledger, CycleRecord(combinedChat(allChatMessages), userPrompt[1], <<>>))
  /\ Throw("ledger")
  /\ UNCHANGED <<tradingMode, firstRun, viewVars, feedDown, feedSilent, oracleOutput, cycles, venueCash,
                 marketStates, account, userPrompt, oracleCalls,
                 decisions, dailyLossCheck, idx, remainingAvailableCash, positionInfo,
                 positionFetches, allTradingRecords, allChatMessages, gatewayCalls,
                 auditLog, appendCalls>>

\* Variant: a failed create is followed by closing what the cycle opened.
LedgerWriteFail_Reverses ==
  /\ pc = "write"
  /\ Throw("ledger")
  /\ gatewayCalls' =
       Append(gatewayCalls,
              Call("sell", 0, "ALL", [percentage |-> MaxPercentage],
                   [success |-> TRUE, error |-> None]))
  /\ UNCHANGED <<tradingMode, firstRun, viewVars, feedDown, feedSilent, oracleOutput, cycles, venueCash,
                 marketStates, account, userPrompt, oracleCalls,
                 decisions, dailyLossCheck, idx, remainingAvailableCash, positionInfo,
                 positionFetches, allTradingRecords, allChatMessages,
                 auditLog, appendCalls, ledger>>

\* prisma.chat.create rejects: the outer catch logs and rethrows.
LedgerWriteFail ==
  /\ pc = "write"
  /\ Throw("ledger")
  /\ UNCHANGED <<tradingMode, firstRun, viewVars, feedDown, feedSilent, oracleOutput, cycles, venueCash,
                 marketStates, account, userPrompt, oracleCalls,
                 decisions, dailyLossCheck, idx, remainingAvailableCash, positionInfo,
                 positionFetches, allTradingRecords, allChatMessages, gatewayCalls,
                 auditLog, appendCalls, ledger>>

-----------------------------------------------------------------------------
Next ==
  \/ \E s \in SeqToSet(supportedSymbols) : FetchOk(s)
  \/ \E s \in SeqToSet(supportedSymbols) : FetchFail(s)
  \/ GetAccountOk
  \/ GetAccountFail
  \/ BuildPromptOk
  \/ BuildPromptFail
  \/ OracleValid
  \/ OracleSchemaMismatch
  \/ OracleTimeout
  \/ BlockedWriteOk
  \/ BlockedWriteFail
  \/ ProcessBuy
  \/ ProcessSellMissing
  \/ LookupPosition
  \/ ExecuteSell
  \/ ProcessHold
  \/ LedgerWriteOk
  \/ LedgerWriteFail

Spec == Init /\ [][Next]_vars

\* The same cycle under every set of failing fetches, with shorter batches.
NextAnyOutage ==
  \/ \E s \in SeqToSet(supportedSymbols) : FetchOk(s)
  \/ \E s \in SeqToSet(supportedSymbols) : FetchFail(s)
  \/ GetAccountOk
  \/ GetAccountFail
  \/ BuildPromptOk
  \/ BuildPromptFail
  \/ OracleValidAnyOutage
  \/ OracleSchemaMismatchAnyOutage
  \/ OracleTimeout
  \/ BlockedWriteOk
  \/ BlockedWriteFail
  \/ ProcessBuy
  \/ ProcessSellMissing
  \/ LookupPosition
  \/ ExecuteSell
  \/ ProcessHold
  \/ LedgerWriteOk
  \/ LedgerWriteFail

SpecAnyOutage == InitAnyOutage /\ [][NextAnyOutage]_vars

\* The cycle when the oracle does not answer within the timeout: it answers
\* late or never. The timer armed by setTimeout fires.
NextSlowOracle ==
  \/ \E s \in SeqToSet(supportedSymbols) : FetchOk(s)
  \/ \E s \in SeqToSet(supportedSymbols) : FetchFail(s)
  \/ GetAccountOk
  \/ GetAccountFail
  \/ BuildPromptOk
  \/ BuildPromptFail
  \/ OracleTimeout
  \/ OracleLateAnswer

SpecSlowOracle == Init /\ [][NextSlowOracle]_vars /\ WF_vars(OracleTimeout)

-----------------------------------------------------------------------------
(* The same cycle under the two trading modes                               *)

otherMode(mode) == CHOOSE m \in TradingModes : m # mode

\* What a finished run was given by its collaborators and what it did.
RunTrace ==
  [tradingMode |-> tradingMode, pc |-> pc, thrown |-> thrown,
   marketStates |-> marketStates, account |-> account, oracleOutput |-> oracleOutput,
   positionFetches |-> positionFetches, gatewayCalls |-> gatewayCalls,
   remainingAvailableCash |-> remainingAvailableCash,
   allTradingRecords |-> allTradingRecords, allChatMessages |-> allChatMessages,
   auditLog |-> auditLog, ledger |-> ledger]

\* run() is invoked again with riskConfig.tradingMode set to the other mode;
\* what the Ledger holds stays.
RunAgain ==
  /\ pc \in {"done", "failed"}
  /\ firstRun = None
  /\ firstRun' = Some(RunTrace)
  /\ tradingMode' = otherMode(tradingMode)
  /\ pc' = "fetch"
  /\ marketStates' = [s \in SeqToSet(supportedSymbols) |-> "pending"]
  /\ account' = None
  /\ userPrompt' = None
  /\ oracleCalls' = 0
  /\ oracleOutput' = None
  /\ decisions' = <<>>
  /\ dailyLossCheck' = None
  /\ idx' = 0
  /\ remainingAvailableCash' = 0
  /\ positionInfo' = None
  /\ positionFetches' = <<>>
  /\ allTradingRecords' = <<>>
  /\ allChatMessages' = <<>>
  /\ gatewayCalls' = <<>>
  /\ auditLog' = <<>>
  /\ appendCalls' = 0
  /\ thrown' = "none"
  /\ UNCHANGED <<viewVars, feedDown, feedSilent, cycles, venueCash, ledger>>

\* The collaborators answer the run under way as they answered the first
\* run: the same account, the same oracle output, the same results of the
\* gateway calls and of the position lookups in their order, the same
\* failures of the account read, the prompt build, the oracle and the Ledger.
SameAnswers ==
  firstRun # None =>
    LET f == firstRun[1]
        common(a, b) == 1..(IF Len(a) < Len(b) THEN Len(a) ELSE Len(b))
    IN /\ account # None => account = f.account
       /\ oracleOutput # None => oracleOutput = f.oracleOutput
       /\ thrown # "none" => thrown = f.thrown
       /\ pc = "done" => f.pc = "done"
       /\ \A k \in common(gatewayCalls, f.gatewayCalls) :
            gatewayCalls[k].result = f.gatewayCalls[k].result
       /\ \A k \in common(positionFetches, f.positionFetches) :
            positionFetches[k].outcome = f.positionFetches[k].outcome

NextModes ==
  \/ \E s \in SeqToSet(supportedSymbols) : FetchOk(s) /\ SameAnswers'
  \/ \E s \in SeqToSet(supportedSymbols) : FetchFail(s) /\ SameAnswers'
  \/ GetAccountOk /\ SameAnswers'
  \/ GetAccountFail /\ SameAnswers'
  \/ BuildPromptOk /\ SameAnswers'
  \/ BuildPromptFail /\ SameAnswers'
  \/ OracleValidModes /\ SameAnswers'
  \/ OracleSchemaMismatchModes /\ SameAnswers'
  \/ OracleTimeout /\ SameAnswers'
  \/ BlockedWriteOk /\ SameAnswers'
  \/ BlockedWriteFail /\ SameAnswers'
  \/ ProcessBuy /\ SameAnswers'
  \/ ProcessSellMissing /\ SameAnswers'
  \/ LookupPosition /\ SameAnswers'
  \/ ExecuteSell /\ SameAnswers'
  \/ ProcessHold /\ SameAnswers'
  \/ LedgerWriteOk /\ SameAnswers'
  \/ LedgerWriteFail /\ SameAnswers'
  \/ RunAgain

SpecModes == Init /\ [][NextModes]_vars

-----------------------------------------------------------------------------
(* ModelsView: the activity view                                            *)

DEFAULT_FIVE_SYMBOLS == <<"BTC", "ETH", "BNB", "SOL", "DOGE">>

\* A row of the Trading table; ids are sequences of their parts.
Trading(id, symbol, opeartion, leverage, amount, pricing) ==
  [id |-> <<id>>, symbol |-> symbol, opeartion |-> opeartion, leverage |-> leverage,
   amount |-> amount, pricing |-> pricing, stopLoss |-> None, takeProfit |-> None,
   createdAt |-> "t1"]

Chat(id, tradings) == [id |-> id, tradings |-> tradings, createdAt |-> "t0"]

\* TradeRecords a cycle record of /api/activity can carry: two of one symbol,
\* one of a symbol outside the five.
TradingMenu ==
  { Trading("a", "BTC", "Buy", Some(2), Some(3), Some(100)),
    Trading("b", "BTC", "Sell", None, Some(3), Some(110)),
    Trading("c", "ETH", "Hold", None, None, None),
    Trading("d", "XRP", "Buy", Some(1), Some(5), Some(2)),
    Trading("e", "DOGE", "Buy", Some(1), Some(7), Some(1)) }

TradingLists == SeqsUpTo(TradingMenu, MaxTradings)

\* result.data.chats of an answer, undefined included.
ChatLists ==
  {None, Some(<<>>)}
    \cup {Some(<<Chat("c1", ts)>>) : ts \in TradingLists}
    \cup {Some(<<Chat("c1", <<t>>), Chat("c2", <<>>)>>) : t \in TradingMenu}

\* result.data.positions of an answer, undefined included.
PositionLists == {None, Some(<<[symbol |-> "BTC", contracts |-> 1]>>)}

\* What response.json() can resolve with: an answer without success or
\* without data, an answer with chats and no positions, one with positions.
ActivityResults ==
  {[success |-> FALSE, data |-> None], [success |-> TRUE, data |-> None],
   [success |-> FALSE, data |-> Some([chats |-> Some(<<>>), positions |-> None])]}
    \cup {[success |-> TRUE, data |-> Some([chats |-> cs, positions |-> None])] :
            cs \in ChatLists}
    \cup {[success |-> TRUE, data |-> Some([chats |-> None, positions |-> ps])] :
            ps \in PositionLists}

\* Variant: the first record of a symbol stays in the map.
RECURSIVE bySymbol_FirstWins(_)
bySymbol_FirstWins(tradings) ==
  IF tradings = <<>> THEN <<>>
  ELSE LET t == tradings[Len(tradings)]
           m == bySymbol_FirstWins(SubSeq(tradings, 1, Len(tradings) - 1))
       IN IF t.symbol \in DOMAIN m THEN m
          ELSE [k \in DOMAIN m \cup {t.symbol} |-> IF k = t.symbol THEN t ELSE m[k]]

\* for (const t of chat.tradings) bySymbol.set(t.symbol, t)
RECURSIVE bySymbol(_)
bySymbol(tradings) ==
  IF tradings = <<>> THEN <<>>
  ELSE LET t == tradings[Len(tradings)]
           m == bySymbol(SubSeq(tradings, 1, Len(tradings) - 1))
       IN [k \in DOMAIN m \cup {t.symbol} |-> IF k = t.symbol THEN t ELSE m[k]]

\* The Hold that stands in for a symbol without a record.
virtualTrading(chat, sym) ==
  [id |-> <<"virtual", chat.id, sym>>, symbol |-> sym, opeartion |-> "Hold",
   leverage |-> None, amount |-> None, pricing |-> None, stopLoss |-> None,
   takeProfit |-> None, createdAt |-> chat.createdAt]

\* const decisions: Trading[] = (() => { ... return filled; })()
filled(chat) ==
  LET m == bySymbol(chat.tradings)
  IN [j \in DOMAIN DEFAULT_FIVE_SYMBOLS |->
        LET sym == DEFAULT_FIVE_SYMBOLS[j]
        IN IF sym \in DOMAIN m THEN m[sym] ELSE virtualTrading(chat, sym)]

\* What renderModelChat returns for a loading flag and a list of chats.
renderModelChat(isLoading, cs) ==
  IF isLoading THEN [view |-> "loading", cards |-> <<>>]
  ELSE IF Len(cs) = 0 THEN [view |-> "empty", cards |-> <<>>]
  ELSE [view |-> "list", cards |-> [i \in DOMAIN cs |-> filled(cs[i])]]

\* The state of run(), which the view does not touch.
tradingVars ==
  <<pc, tradingMode, firstRun, feedDown, feedSilent, oracleOutput, cycles, venueCash,
    marketStates, account, userPrompt, oracleCalls,
    decisions, dailyLossCheck, idx, remainingAvailableCash, positionInfo,
    positionFetches, allTradingRecords, allChatMessages, gatewayCalls, auditLog,
    appendCalls, ledger, thrown>>

\* The mount effect or a tick of the 10 s interval calls fetchActivity,
\* whether or not an earlier call is still under way.
FetchActivity(c) ==
  /\ activityCalls[c] = "idle"
  /\ \A d \in 1..(c - 1) : activityCalls[d] # "idle"
  /\ activityCalls' = [activityCalls EXCEPT ![c] = "fetching"]
  /\ UNCHANGED <<loading, chats, viewPositions, modelChat, tradingVars>>

\* fetch rejects: the catch logs and clears the flag.
FetchRejects(c) ==
  /\ activityCalls[c] = "fetching"
  /\ activityCalls' = [activityCalls EXCEPT ![c] = "returned"]
  /\ loading' = FALSE
  /\ UNCHANGED <<chats, viewPositions, tradingVars>>
  /\ modelChat' = renderModelChat(loading', chats')

\* Variant: the flag is cleared before the early return.
ResponseNotOk_ClearsFlag(c) ==
  /\ activityCalls[c] = "fetching"
  /\ activityCalls' = [activityCalls EXCEPT ![c] = "returned"]
  /\ loading' = FALSE
  /\ UNCHANGED <<chats, viewPositions, tradingVars>>
  /\ modelChat' = renderModelChat(loading', chats')

\* if (!response.ok) return;
ResponseNotOk(c) ==
  /\ activityCalls[c] = "fetching"
  /\ activityCalls' = [activityCalls EXCEPT ![c] = "returned"]
  /\ UNCHANGED <<loading, chats, viewPositions, modelChat, tradingVars>>

\* The response is OK; fetchActivity awaits response.json().
ResponseOk(c) ==
  /\ activityCalls[c] = "fetching"
  /\ activityCalls' = [activityCalls EXCEPT ![c] = "parsing"]
  /\ UNCHANGED <<loading, chats, viewPositions, modelChat, tradingVars>>

\* response.json() rejects: the catch logs and clears the flag.
JsonRejects(c) ==
  /\ activityCalls[c] = "parsing"
  /\ activityCalls' = [activityCalls EXCEPT ![c] = "returned"]
  /\ loading' = FALSE
  /\ UNCHANGED <<chats, viewPositions, tradingVars>>
  /\ modelChat' = renderModelChat(loading', chats')

\* response.json() resolves; the view takes the answer and renders.
JsonResolves(c) ==
  /\ activityCalls[c] = "parsing"
  /\ activityCalls' = [activityCalls EXCEPT ![c] = "returned"]
  /\ \E result \in ActivityResults :
       IF result.success /\ result.data # None
       THEN /\ chats' = IF result.data[1].chats # None THEN result.data[1].chats[1] ELSE <<>>
            /\ viewPositions' = IF result.data[1].positions # None
                                   THEN result.data[1].positions[1] ELSE <<>>
       ELSE UNCHANGED <<chats, viewPositions>>
  /\ loading' = FALSE
  /\ modelChat' = renderModelChat(loading', chats')
  /\ UNCHANGED tradingVars

NextActivity ==
  \/ \E c \in 1..MaxActivityCalls : FetchActivity(c)
  \/ \E c \in 1..MaxActivityCalls : FetchRejects(c)
  \/ \E c \in 1..MaxActivityCalls : ResponseNotOk(c)
  \/ \E c \in 1..MaxActivityCalls : ResponseOk(c)
  \/ \E c \in 1..MaxActivityCalls : JsonRejects(c)
  \/ \E c \in 1..MaxActivityCalls : JsonResolves(c)

\* The view beside a run() that has not moved, under one trading mode.
InitActivity == Init /\ tradingMode = "live"

SpecActivity == InitActivity /\ [][NextActivity]_vars

\* Snapshot collection from its first statement, with feeds that never
\* answer. A feed that is up answers, the gateway's timer fires, and the
\* event loop runs the continuation of a settled promise.
NextSnapshots ==
  \/ IssueFetches
  \/ \E s \in SeqToSet(supportedSymbols) : GatewayTimeout(s)
  \/ \E s \in SeqToSet(supportedSymbols) : FetchOk(s)
  \/ \E s \in SeqToSet(supportedSymbols) : FetchFail(s)
  \/ GetAccountOk
  \/ GetAccountFail
  \/ BuildPromptOk
  \/ BuildPromptFail

SpecSnapshots ==
  /\ InitSnapshots
  /\ [][NextSnapshots]_vars
  /\ WF_vars(IssueFetches)
  /\ \A s \in SeqToSet(supportedSymbols) :
       WF_vars(GatewayTimeout(s)) /\ WF_vars(FetchOk(s)) /\ WF_vars(FetchFail(s))

-----------------------------------------------------------------------------
(* Invocations of run() side by side                                        *)

\* The state of the one cycle followed step by step above.
runVars ==
  <<pc, tradingMode, firstRun, viewVars, feedDown, feedSilent, oracleOutput, marketStates, account, userPrompt,
    oracleCalls, decisions, dailyLossCheck, idx, remainingAvailableCash, positionInfo,
    positionFetches, allTradingRecords, allChatMessages, gatewayCalls, auditLog,
    appendCalls, ledger, thrown>>

\* The scheduler calls run(); run() does not look for an invocation under way.
Invoke(c) ==
  /\ cycles[c].pc = "idle"
  /\ \A d \in 1..(c - 1) : cycles[d].pc # "idle"
  /\ cycles' = [cycles EXCEPT ![c].pc = "started"]
  /\ UNCHANGED <<runVars, venueCash>>

\* getAccountInformationAndPerformance, then
\* remainingAvailableCash = accountInformationAndPerformance.availableCash
CycleReadAccount(c) ==
  /\ cycles[c].pc = "started"
  /\ cycles' = [cycles EXCEPT ![c] = [pc |-> "loop", seed |-> venueCash,
                                      cash |-> venueCash, committed |-> 0, buys |-> 0]]
  /\ UNCHANGED <<runVars, venueCash>>

\* A Buy of the batch passes the ordered validation against this invocation's
\* balance and is filled: the venue commits its margin.
CycleFillBuy(c) ==
  /\ cycles[c].pc = "loop"
  /\ cycles[c].buys < MaxBatch
  /\ \E object \in ValidMenu :
       /\ object.opeartion = "Buy"
       /\ buyGate(object, cycles[c].cash, riskConfig) = "execute"
       /\ \E buyResult \in BuyResults(object.buy[1]) :
            /\ buyResult.success
            /\ LET margin == requiredMargin(object.buy[1])
               IN /\ cycles' = [cycles EXCEPT
                                  ![c].cash = cashAfterBuy(@, margin, buyResult),
                                  ![c].committed = @ + margin,
                                  ![c].buys = @ + 1]
                  /\ venueCash' = venueCash - margin
  /\ UNCHANGED runVars

\* The loop ends and run() returns.
CycleFinish(c) ==
  /\ cycles[c].pc = "loop"
  /\ cycles' = [cycles EXCEPT ![c].pc = "done"]
  /\ UNCHANGED <<runVars, venueCash>>

NextInvocations ==
  \/ \E c \in 1..MaxCycles : Invoke(c)
  \/ \E c \in 1..MaxCycles : CycleReadAccount(c)
  \/ \E c \in 1..MaxCycles : CycleFillBuy(c)
  \/ \E c \in 1..MaxCycles : CycleFinish(c)

SpecInvocations == Init /\ [][NextInvocations]_vars

-----------------------------------------------------------------------------
(* Properties                                                               *)

\* amount * price / leverage of the decision at index i
MarginOf(i) ==
  (decisions[i].buy[1].amount * decisions[i].buy[1].pricing) \div decisions[i].buy[1].leverage

FilledBuys == {k \in DOMAIN gatewayCalls : gatewayCalls[k].op = "buy" /\ gatewayCalls[k].success}

\* Sum of the required margins of the Buys filled among the first n gateway calls.
RECURSIVE FilledMargin(_)
FilledMargin(n) ==
  IF n = 0 THEN 0
  ELSE (IF n \in FilledBuys THEN MarginOf(gatewayCalls[n].i) ELSE 0) + FilledMargin(n - 1)

\* C1: at every point of a cycle, the sum of amount * price / leverage over the
\* Buy decisions whose execution succeeded is at most the available cash read
\* at cycle start.
C1_FilledMarginWithinCash ==
  gatewayCalls # <<>> => FilledMargin(Len(gatewayCalls)) <= account[1].availableCash

\* Three Buys filled in one cycle, using up the start cash exactly.
C1_Witness ==
  /\ Cardinality(FilledBuys) >= 3
  /\ FilledMargin(Len(gatewayCalls)) = account[1].availableCash

\* The three checks of a Buy, against the balance of the current state.
BuyChecksPass(object) ==
  /\ object.opeartion = "Buy"
  /\ object.buy # None
  /\ checkBuyRisk(object.buy[1].amount, object.buy[1].pricing, object.buy[1].leverage,
                  remainingAvailableCash, riskConfig).allowed
  /\ (object.buy[1].amount * object.buy[1].pricing) \div object.buy[1].leverage
       <= remainingAvailableCash

NewCall(op) ==
  /\ Len(gatewayCalls') = Len(gatewayCalls) + 1
  /\ gatewayCalls'[Len(gatewayCalls')].op = op

\* C2: a step calls buy only for the decision being processed, and only when
\* that decision has its required fields, checkBuyRisk allows it against the
\* running balance and its margin is within the running balance; the step that
\* processes a Buy failing one of the three makes no gateway call.
C2_BuyOnlyAfterChecks ==
  [][ IF pc = "loop"
        THEN /\ NewCall("buy") =>
                  /\ BuyChecksPass(decisions[idx])
                  /\ gatewayCalls'[Len(gatewayCalls')].i = idx
             /\ (decisions[idx].opeartion = "Buy" /\ ~BuyChecksPass(decisions[idx]))
                  => gatewayCalls' = gatewayCalls
        ELSE ~NewCall("buy") ]_vars

\* A cycle in which one Buy reached the gateway and another was stopped before it.
C2_Witness ==
  /\ \E k \in DOMAIN gatewayCalls : gatewayCalls[k].op = "buy"
  /\ \E i \in DOMAIN allTradingRecords :
       /\ decisions[i].opeartion = "Buy"
       /\ decisions[i].buy # None
       /\ \A k \in DOMAIN gatewayCalls : gatewayCalls[k].i # i

GateDenied == dailyLossCheck # None /\ ~dailyLossCheck[1].allowed

\* C3: in a cycle where the daily-loss gate denies, the Execution Gateway is
\* never called and every persisted TradeRecord has operation Hold.
C3_DeniedCycleOnlyHolds ==
  GateDenied =>
    /\ gatewayCalls = <<>>
    /\ \A r \in DOMAIN ledger : \A t \in DOMAIN ledger[r].tradings :
         ledger[r].tradings[t].opeartion = "Hold"

\* A denied cycle persisted although the oracle proposed a Buy and a Sell.
C3_Witness ==
  /\ GateDenied
  /\ Len(ledger) = 1
  /\ \E i \in DOMAIN decisions : decisions[i].opeartion = "Buy" /\ decisions[i].buy # None
  /\ \E i \in DOMAIN decisions : decisions[i].opeartion = "Sell" /\ decisions[i].sell # None

\* The oracle call was issued and ended without decisions.
OracleFailed == oracleCalls > 0 /\ pc # "oracle" /\ decisions = <<>>

\* C4: when the oracle call times out or fails, run() has thrown the oracle
\* error, no Execution Gateway call was made, no create was issued and nothing
\* is persisted.
C4_OracleFailureIsFatal ==
  OracleFailed =>
    /\ pc = "failed"
    /\ thrown = "oracle"
    /\ gatewayCalls = <<>>
    /\ allTradingRecords = <<>>
    /\ appendCalls = 0
    /\ ledger = <<>>

C4_Witness == OracleFailed /\ thrown = "oracle"

FailedCalls == {k \in DOMAIN gatewayCalls : ~gatewayCalls[k].success}

NewFailedCall ==
  /\ Len(gatewayCalls') = Len(gatewayCalls) + 1
  /\ ~gatewayCalls'[Len(gatewayCalls')].success

\* C5: a failed Execution Gateway call (buy, sell or setProtective) yields the
\* record of its decision and the loop goes on to the next decision; a cycle
\* with such a failure fails only on the ledger write, reaches the write with
\* every decision processed, and ends with its CycleRecord persisted.
C5_ExecutionFailureNotFatal ==
  /\ [](FailedCalls # {} =>
          /\ pc = "failed" => thrown = "ledger"
          /\ pc \in {"write", "done", "failed"} =>
               Len(allTradingRecords) = Len(decisions)
          /\ pc = "done" => Len(ledger) = 1)
  /\ [][NewFailedCall =>
          /\ idx' = idx + 1
          /\ pc' \in {"loop", "write"}
          /\ thrown' = "none"
          /\ Len(allTradingRecords') = Len(allTradingRecords) + 1]_vars

\* A cycle persisted after its first decision failed at the gateway and two more followed.
C5_Witness ==
  /\ pc = "done"
  /\ Len(decisions) = 3
  /\ \E k \in FailedCalls : gatewayCalls[k].i = 1
  /\ \E k \in DOMAIN gatewayCalls : gatewayCalls[k].i = 3

\* C6: a cycle that completes has written exactly one CycleRecord; its
\* TradeRecords are as many as the oracle's decisions and the i-th one is the
\* outcome of the i-th decision: same instrument, the decision's operation or Hold.
C6_OneRecordPerDecision ==
  pc = "done" =>
    /\ Len(ledger) = 1
    /\ Len(ledger[1].tradings) = Len(decisions)
    /\ \A i \in DOMAIN decisions :
         /\ ledger[1].tradings[i].symbol = decisions[i].symbol
         /\ ledger[1].tradings[i].opeartion \in {decisions[i].opeartion, "Hold"}

\* A completed cycle over a Sell without percentage, a Buy and a Hold.
C6_Witness ==
  /\ pc = "done"
  /\ ~GateDenied
  /\ Len(decisions) = 3
  /\ decisions[1].opeartion = "Sell" /\ decisions[1].sell = None
  /\ decisions[2].opeartion = "Buy"
  /\ decisions[3].opeartion = "Hold"

\* C7: the create is issued at most once per cycle and persists at most one
\* CycleRecord, with its tradings nested; as long as the cycle has not
\* completed, and when it failed, the ledger holds nothing of it.
C7_AtomicLedgerWrite ==
  /\ appendCalls <= 1
  /\ Len(ledger) <= appendCalls
  /\ pc # "done" => ledger = <<>>
  /\ pc = "done" => Len(ledger[1].tradings) = Len(decisions)

\* The write failed after decisions were executed: nothing is persisted.
C7_Witness ==
  /\ pc = "failed"
  /\ thrown = "ledger"
  /\ appendCalls = 1
  /\ gatewayCalls # <<>>
  /\ ledger = <<>>

FieldMissing(d) ==
  \/ d.opeartion = "Buy" /\ d.buy = None
  \/ d.opeartion = "Sell" /\ d.sell = None

BlockReasonFor(chat, i) ==
  \E m \in DOMAIN chat : chat[m].i = i /\ chat[m].kind = "blocked" /\ chat[m].text # ""

\* C8: for a decision missing a field its operation requires, the persisted
\* TradeRecord has operation Hold and the CycleRecord carries a non-empty
\* block reason for that decision.
C8_MissingFieldBlockReason ==
  (pc = "done" /\ ~GateDenied) =>
    \A i \in DOMAIN decisions :
      FieldMissing(decisions[i]) =>
        /\ ledger[1].tradings[i].opeartion = "Hold"
        /\ BlockReasonFor(ledger[1].chat, i)

\* The step processes a Buy that has its fields and that a risk gate denies.
RiskDeniedStep ==
  /\ pc = "loop"
  /\ decisions[idx].opeartion = "Buy"
  /\ decisions[idx].buy # None
  /\ ~BuyChecksPass(decisions[idx])

\* C9: a Buy denied by a risk gate (checkBuyRisk denies, or the margin exceeds
\* the running balance) gets a TradeRecord with operation Hold and its denial
\* reason recorded, and the loop goes on to the next decision.
C9_RiskDenialDowngrades ==
  [][RiskDeniedStep =>
       /\ Len(allTradingRecords') = Len(allTradingRecords) + 1
       /\ allTradingRecords'[Len(allTradingRecords')].opeartion = "Hold"
       /\ BlockReasonFor(allChatMessages', idx)
       /\ gatewayCalls' = gatewayCalls
       /\ idx' = idx + 1
       /\ pc' \in {"loop", "write"}]_vars

FailureReasonFor(chat, i, err) ==
  \E m \in DOMAIN chat : chat[m].i = i /\ Some(chat[m].text) = err

\* C10: when the gateway reports failure for an approved Buy, the running
\* balance is unchanged and the decision's TradeRecord carries the attempted
\* price, amount and leverage, the failure reason being recorded with it.
C10_FailedBuyRecorded ==
  [][(NewCall("buy") /\ NewFailedCall) =>
       /\ remainingAvailableCash' = remainingAvailableCash
       /\ Len(allTradingRecords') = Len(allTradingRecords) + 1
       /\ LET record == allTradingRecords'[Len(allTradingRecords')]
              b == decisions[idx].buy[1]
          IN /\ record.pricing = Some(b.pricing)
             /\ record.amount = Some(b.amount)
             /\ record.leverage = Some(b.leverage)
       /\ FailureReasonFor(allChatMessages', idx, Some("Order rejected"))]_vars


\* The loop over the decisions has started (the gate allowed the cycle).
LoopEntered == dailyLossCheck # None /\ dailyLossCheck[1].allowed

\* C11: at every point of the loop the running balance is the available cash of
\* cycle start minus the requested margins amount * price / leverage of the Buys
\* filled so far, whatever price and amount the fills reported; the record of a
\* filled Buy carries the executed price and the executed amount of its fill.
C11_BalanceTracksRequestedMargin ==
  LoopEntered =>
    /\ remainingAvailableCash =
         account[1].availableCash - FilledMargin(Len(gatewayCalls))
    /\ \A k \in FilledBuys :
         gatewayCalls[k].i <= Len(allTradingRecords) =>
           LET rec == allTradingRecords[gatewayCalls[k].i]
               fill == gatewayCalls[k].result
           IN /\ rec.opeartion = "Buy"
              /\ rec.pricing = fill.executedPrice
              /\ rec.amount = fill.executedAmount

\* A Buy filled at a price other than the requested one, then a second Buy
\* passed against the decremented balance and filled too.
C11_Witness ==
  /\ pc = "done"
  /\ Cardinality(FilledBuys) = 2
  /\ \E k \in FilledBuys :
       /\ gatewayCalls[k].result.executedPrice # Some(decisions[gatewayCalls[k].i].buy[1].pricing)
       /\ MarginOf(gatewayCalls[k].i) > 0
  /\ remainingAvailableCash < account[1].availableCash


\* The first two decisions are Buys of one margin m with m <= C < 2m, C the
\* available cash of cycle start, and the first of them was filled.
TwoBuysOverCash ==
  /\ LoopEntered
  /\ Len(decisions) >= 2
  /\ \A i \in {1, 2} : decisions[i].opeartion = "Buy" /\ decisions[i].buy # None
  /\ MarginOf(1) = MarginOf(2)
  /\ MarginOf(1) <= account[1].availableCash
  /\ account[1].availableCash < 2 * MarginOf(1)
  /\ \E k \in FilledBuys : gatewayCalls[k].i = 1

\* C12: with cash C and two consecutive Buys each requiring margin m,
\* m <= C < 2m, the first filled: the first leaves the balance at C - m, and the
\* second is denied with a reason, causes no gateway call and is recorded with
\* operation Hold.
C12_SecondBuyDowngraded ==
  (TwoBuysOverCash /\ Len(allTradingRecords) >= 2) =>
    /\ allTradingRecords[1].opeartion = "Buy"
    /\ Len(allTradingRecords) = 2 =>
         remainingAvailableCash = account[1].availableCash - MarginOf(1)
    /\ \A k \in DOMAIN gatewayCalls : gatewayCalls[k].i # 2
    /\ BlockReasonFor(allChatMessages, 2)
    /\ allTradingRecords[2].opeartion = "Hold"

\* C13: when the venue answers a Sell with the failure "No open position",
\* nothing is thrown, the decision gets a TradeRecord with amount 0 that is
\* persisted with that failure reason, and the loop goes on.
C13_NoPositionSellRecorded ==
  [][(NewCall("sell") /\ NewFailedCall) =>
       /\ thrown' = "none"
       /\ Len(allTradingRecords') = Len(allTradingRecords) + 1
       /\ allTradingRecords'[Len(allTradingRecords')].amount = Some(0)
       /\ idx' = idx + 1
       /\ pc' \in {"loop", "write"}
       /\ FailureReasonFor(allChatMessages', idx, Some("No open position"))]_vars


\* What a denied cycle has done, whatever becomes of its create: no decision
\* processed, no gateway call (setStopLossTakeProfit included), one create
\* issued, and once the create has answered, one CycleRecord with one
\* TradeRecord per decision, in order, each Hold, tagged with the block reason.
DeniedCycleShape ==
  /\ idx = 0
  /\ allTradingRecords = <<>>
  /\ allChatMessages = <<>>
  /\ gatewayCalls = <<>>
  /\ positionFetches = <<>>
  /\ appendCalls = 1
  /\ Len(ledger) <= 1
  /\ pc = "done" =>
       /\ Len(ledger) = 1
       /\ Len(ledger[1].tradings) = Len(decisions)
       /\ \A i \in DOMAIN decisions :
            /\ ledger[1].tradings[i].symbol = decisions[i].symbol
            /\ ledger[1].tradings[i].opeartion = "Hold"
       /\ \E m \in DOMAIN ledger[1].chat :
            /\ ledger[1].chat[m].kind = "blockedByRiskControl"
            /\ ledger[1].chat[m].text = dailyLossCheck[1].reason
            /\ ledger[1].chat[m].text # ""

\* C14 as stated: when the daily-loss gate denies, exactly one CycleRecord is
\* persisted, one Hold TradeRecord per decision in order, tagged with the block
\* reason, no decision is processed, no gateway call is made, and run() returns
\* without throwing.
C14_DeniedCycleReturns ==
  GateDenied => (DeniedCycleShape /\ pc \in {"blockedWrite", "done"} /\ thrown = "none")

\* C14, amended: the same, except that run() throws the ledger error, with
\* nothing persisted, when the create of the blocked CycleRecord fails.
C14_DeniedCycleReturnsUnlessWriteFails ==
  GateDenied =>
    /\ DeniedCycleShape
    /\ pc \in {"blockedWrite", "done", "failed"}
    /\ pc = "failed" <=> thrown = "ledger"
    /\ pc # "failed" => thrown = "none"
    /\ pc = "failed" => ledger = <<>>

\* A denied cycle that returned: three decisions, among them a fillable Buy and
\* a Hold asking for a stop-loss adjustment, all persisted as Hold.
C14_Witness ==
  /\ GateDenied
  /\ pc = "done"
  /\ Len(decisions) = 3
  /\ \E i \in DOMAIN decisions : decisions[i].opeartion = "Hold" /\ shouldAdjustProfit(decisions[i])
  /\ \E i \in DOMAIN decisions :
       /\ decisions[i].opeartion = "Buy" /\ decisions[i].buy # None
       /\ MarginOf(i) > 0 /\ MarginOf(i) <= account[1].availableCash


\* C15: whatever subset of the five snapshot fetches fails, all five included,
\* the failures do not fail the cycle: the failed instruments are left out and
\* the oracle request is built from exactly the snapshots that were fetched.
C15_FetchFailuresAbsorbed ==
  /\ thrown # "fetch"
  /\ pc = "fetch" => thrown = "none"
  /\ (pc = "fetch" /\ AllFetched) => ENABLED GetAccountOk
  /\ account # None => AllFetched
  /\ userPrompt # None =>
       /\ userPrompt[1] = SeqToSet(supportedSymbols) \ feedDown
       /\ userPrompt[1] = validMarketStates
  /\ \A r \in DOMAIN ledger :
       ledger[r].userPrompt = SeqToSet(supportedSymbols) \ feedDown

\* All five fetches failed and the cycle still ran to its ledger write, its
\* prompt built from no snapshot.
C15_Witness ==
  /\ feedDown = SeqToSet(supportedSymbols)
  /\ pc = "done"
  /\ userPrompt = Some({})
  /\ oracleCalls = 1
  /\ Len(ledger) = 1


ThrownIffFailed == pc = "failed" <=> thrown # "none"

\* C17 as stated: run() throws only when the oracle call or the ledger write
\* fails; the failure of any other collaborator, the account read and the
\* prompt construction included, is absorbed.
C17_ThrowsOnlyOnOracleOrLedger ==
  /\ ThrownIffFailed
  /\ thrown \in {"none", "oracle", "ledger"}

\* C17, amended: run() throws only when the account read, the prompt
\* construction, the oracle call or a ledger write fails, each at its own step;
\* failed snapshot fetches, position lookups and gateway calls are absorbed.
C17_ThrowsOnlyOnFatalSteps ==
  /\ ThrownIffFailed
  /\ thrown \in {"none", "account", "prompt", "oracle", "ledger"}
  /\ thrown = "account" => (AllFetched /\ account = None /\ oracleCalls = 0)
  /\ thrown = "prompt" => (account # None /\ userPrompt = None /\ oracleCalls = 0)
  /\ thrown = "oracle" => (userPrompt # None /\ oracleCalls = 1 /\ decisions = <<>>)
  /\ thrown = "ledger" => (decisions # <<>> /\ appendCalls = 1 /\ ledger = <<>>)
  /\ thrown \in {"account", "prompt", "oracle"} =>
       (gatewayCalls = <<>> /\ positionFetches = <<>> /\ appendCalls = 0)

\* A cycle that returned although a snapshot fetch failed, a position lookup
\* threw, and a buy, a sell and a protective-order call each reported failure.
C17_Witness ==
  /\ pc = "done"
  /\ thrown = "none"
  /\ feedDown # {}
  /\ \E f \in DOMAIN positionFetches : positionFetches[f].outcome = "threw"
  /\ \A op \in {"buy", "sell", "setProtective"} :
       \E k \in FailedCalls : gatewayCalls[k].op = op


\* Unrealized P&L summed over the first n positions; a position without a
\* figure counts for nothing.
RECURSIVE UnrealizedSum(_, _)
UnrealizedSum(positions, n) ==
  IF n = 0 THEN 0
  ELSE (IF positions[n].unrealizedPnl = None THEN 0 ELSE positions[n].unrealizedPnl[1])
       + UnrealizedSum(positions, n - 1)

\* todayPnL / initialCapital < -maxDailyLossPercent / 100, for a positive capital
LossBeyondLimit(todayPnL, initialCapital, percent) ==
  todayPnL * 100 < -(percent * initialCapital)

\* C18: the daily-loss gate denies exactly when todayPnL / initialCapital is
\* more negative than the configured daily-loss fraction, todayPnL being the sum
\* of unrealized P&L over the open positions of the cycle-start account and
\* initialCapital its total cash value; -150 on 1000 at 10% is denied.
C18_DailyLossGate ==
  dailyLossCheck # None =>
    LET acc == account[1]
        todayPnL == UnrealizedSum(acc.positions, Len(acc.positions))
    IN /\ acc.totalCashValue > 0
       /\ ~dailyLossCheck[1].allowed
            <=> LossBeyondLimit(todayPnL, acc.totalCashValue, riskConfig.maxDailyLossPercent)
       /\ (todayPnL = -150 /\ acc.totalCashValue = 1000 /\ riskConfig.maxDailyLossPercent = 10)
            => ~dailyLossCheck[1].allowed

\* The reference case: -150 unrealized on a capital of 1000 at a 10% limit,
\* the gate having denied.
C18_Witness ==
  /\ GateDenied
  /\ account[1].totalCashValue = 1000
  /\ UnrealizedSum(account[1].positions, Len(account[1].positions)) = -150
  /\ riskConfig.maxDailyLossPercent = 10


\* The step processes a Buy that has its fields.
ProcessingBuy ==
  /\ pc = "loop"
  /\ decisions[idx].opeartion = "Buy"
  /\ decisions[idx].buy # None

\* One of the three per-trade limits is exceeded, the position size being
\* measured against the given capital.
BuyOverLimits(b, balance, capital, config) ==
  \/ b.leverage > config.maxLeverage
  \/ (b.amount * b.pricing) \div b.leverage > balance
  \/ b.amount * b.pricing * 100 > config.maxPositionSizePercent * capital

\* The step denies the Buy: a block reason, and no call to the gateway.
BuyDeniedStep ==
  /\ gatewayCalls' = gatewayCalls
  /\ BlockReasonFor(allChatMessages', idx)
  /\ Len(allTradingRecords') = Len(allTradingRecords) + 1

Phase(p) ==
  CASE p = "fetch" -> 1
    [] p = "prompt" -> 2
    [] p = "oracle" -> 3
    [] p \in {"loop", "sell", "blockedWrite"} -> 4
    [] p = "write" -> 5
    [] p \in {"done", "failed"} -> 6

\* What each step of a cycle presupposes.
StepOrder ==
  /\ account # None => AllFetched
  /\ userPrompt # None => account # None
  /\ oracleCalls > 0 => userPrompt # None
  /\ decisions # <<>> => oracleCalls = 1
  /\ dailyLossCheck # None <=> decisions # <<>>
  /\ (idx > 0 \/ allTradingRecords # <<>> \/ gatewayCalls # <<>> \/ positionFetches # <<>>)
       => LoopEntered
  /\ Len(allTradingRecords) <= Len(decisions)
  /\ appendCalls <= 1
  /\ (appendCalls = 1 /\ LoopEntered) =>
       (idx = Len(decisions) + 1 /\ Len(allTradingRecords) = Len(decisions))
  /\ ledger # <<>> => appendCalls = 1

\* C20: a cycle's steps happen in the order snapshot collection, account read
\* and prompt build, oracle call, daily-loss gate, per-decision processing,
\* ledger write: the gate is evaluated once, when the oracle has answered and
\* before any decision is processed, no gateway call precedes its allow
\* verdict, and the final create is issued only after the last decision.
C20_StepOrder ==
  /\ []StepOrder
  /\ [][/\ Phase(pc') >= Phase(pc)
        /\ dailyLossCheck # None => dailyLossCheck' = dailyLossCheck
        /\ decisions # <<>> => decisions' = decisions
        /\ Len(gatewayCalls') > Len(gatewayCalls) => (LoopEntered /\ appendCalls = 0)]_vars

\* An allowed cycle of three decisions, two of which reached the gateway,
\* written to the ledger after the third.
C20_Witness ==
  /\ pc = "done"
  /\ LoopEntered
  /\ Len(decisions) = 3
  /\ Len(gatewayCalls) = 2
  /\ Len(ledger) = 1
  /\ Len(ledger[1].tradings) = 3


\* The gateway calls of a cycle, each logged with the answer it returned, are
\* for decisions of increasing index.
CallsInDecisionOrder ==
  \A j, k \in DOMAIN gatewayCalls : j < k => gatewayCalls[j].i < gatewayCalls[k].i

\* C21: decisions are processed one at a time in the oracle's order: a gateway
\* call is issued for the decision at hand only, when every earlier decision
\* has its record and every earlier call has returned, and the balance it is
\* checked against is the one those calls left; the index moves by one.
C21_SequentialDecisions ==
  /\ [](CallsInDecisionOrder
         /\ \A i \in DOMAIN allTradingRecords :
              allTradingRecords[i].symbol = decisions[i].symbol)
  /\ [][/\ Len(gatewayCalls') > Len(gatewayCalls) =>
             /\ Len(gatewayCalls') = Len(gatewayCalls) + 1
             /\ gatewayCalls'[Len(gatewayCalls')].i = idx
             /\ Len(allTradingRecords) = idx - 1
             /\ \A k \in DOMAIN gatewayCalls : gatewayCalls[k].i < idx
             /\ remainingAvailableCash =
                  account[1].availableCash - FilledMargin(Len(gatewayCalls))
        /\ LoopEntered => idx' \in {idx, idx + 1}
        /\ Len(allTradingRecords') > Len(allTradingRecords) =>
             (Len(allTradingRecords') = idx /\ idx' = idx + 1)]_vars

\* Three decisions each reached the gateway, one call after the other.
C21_Witness ==
  /\ Len(gatewayCalls) = 3
  /\ \A k \in 1..3 : gatewayCalls[k].i = k
  /\ \E k \in 1..3 : gatewayCalls[k].op = "buy" /\ gatewayCalls[k].success
  /\ \E k \in 1..3 : gatewayCalls[k].op = "sell"


\* A batch of 1 to 5 decisions, every Buy leverage within 1..30 and every Sell
\* percentage within 0..100.
BatchWithinBounds(out) ==
  /\ Len(out) \in 1..5
  /\ \A i \in DOMAIN out :
       /\ out[i].buy # None => out[i].buy[1].leverage \in 1..30
       /\ out[i].sell # None => out[i].sell[1].percentage \in 0..100

\* C22: the oracle's output is taken whole or not at all: the decisions being
\* processed are the batch the oracle produced, unchanged, and that batch is
\* within the bounds; a batch with any decision outside them leaves no
\* decision, no record, no gateway call and no ledger write, the cycle failed.
C22_BatchAllOrNothing ==
  /\ decisions # <<>> =>
       (oracleOutput = Some(decisions) /\ BatchWithinBounds(decisions))
  /\ (allTradingRecords # <<>> \/ gatewayCalls # <<>> \/ ledger # <<>>) => decisions # <<>>
  /\ (oracleOutput # None /\ ~BatchWithinBounds(oracleOutput[1])) =>
       /\ decisions = <<>>
       /\ pc = "failed" /\ thrown = "oracle"
       /\ dailyLossCheck = None
       /\ allTradingRecords = <<>> /\ gatewayCalls = <<>> /\ positionFetches = <<>>
       /\ appendCalls = 0 /\ ledger = <<>>

\* The oracle produced a fillable Buy next to a Sell of 101%, and the cycle
\* failed without trading the Buy.
C22_Witness ==
  /\ oracleOutput # None
  /\ thrown = "oracle"
  /\ \E i \in DOMAIN oracleOutput[1] :
       /\ oracleOutput[1][i].opeartion = "Buy" /\ oracleOutput[1][i].buy # None
       /\ oracleOutput[1][i].buy[1].leverage = 1
  /\ \E i \in DOMAIN oracleOutput[1] :
       /\ oracleOutput[1][i].sell # None
       /\ oracleOutput[1][i].sell[1].percentage = 101


\* C23: a Buy whose amount or price is not positive causes no Execution
\* Gateway call and leaves remainingAvailableCash as it was.
C23_NonPositiveBuyNeverTraded ==
  [][(ProcessingBuy /\ (decisions[idx].buy[1].amount <= 0
                          \/ decisions[idx].buy[1].pricing <= 0)) =>
       /\ gatewayCalls' = gatewayCalls
       /\ remainingAvailableCash' = remainingAvailableCash]_vars


\* The step is a Buy that the gateway filled.
FilledBuyStep ==
  /\ NewCall("buy")
  /\ gatewayCalls'[Len(gatewayCalls')].success

\* C24: once seeded, remainingAvailableCash changes only in a step where a
\* Buy is filled: a Hold (with or without a protective-order call, whatever it
\* answers), a Sell (whatever its outcome), a rejected Buy and a failed Buy
\* leave it as it was.
C24_OnlyFilledBuyMovesCash ==
  [][LoopEntered =>
       /\ remainingAvailableCash' # remainingAvailableCash => FilledBuyStep
       /\ (pc \in {"loop", "sell"} /\ decisions[idx].opeartion \in {"Hold", "Sell"})
            => remainingAvailableCash' = remainingAvailableCash
       /\ (pc = "loop" /\ decisions[idx].opeartion = "Buy" /\ ~FilledBuyStep)
            => remainingAvailableCash' = remainingAvailableCash]_vars

\* A failed Buy, a Sell that went through and a Hold whose protective-order
\* call was rejected, the balance still the available cash of cycle start.
C24_Witness ==
  /\ pc = "done"
  /\ remainingAvailableCash = account[1].availableCash
  /\ \E k \in FailedCalls : gatewayCalls[k].op = "buy" /\ MarginOf(gatewayCalls[k].i) > 0
  /\ \E k \in DOMAIN gatewayCalls : gatewayCalls[k].op = "sell" /\ gatewayCalls[k].success
  /\ \E k \in FailedCalls : gatewayCalls[k].op = "setProtective"


\* Everything a cycle can act on or leave behind.
cycleEffects ==
  <<pc, thrown, decisions, dailyLossCheck, idx, remainingAvailableCash, oracleCalls,
    positionFetches, allTradingRecords, allChatMessages, gatewayCalls, auditLog,
    appendCalls, ledger>>

\* C25: when the oracle does not answer in time the cycle still ends: the
\* timeout fires and run() throws the oracle error; an answer arriving after
\* that changes nothing, so no gateway call and no ledger write follow.
C25_TimeoutEndsCycle ==
  /\ (pc = "oracle") ~> (pc = "failed" /\ thrown = "oracle")
  /\ [](thrown = "oracle" =>
          /\ pc = "failed"
          /\ decisions = <<>>
          /\ gatewayCalls = <<>>
          /\ appendCalls = 0
          /\ ledger = <<>>)
  /\ [][thrown = "oracle" => UNCHANGED cycleEffects]_vars

\* The timeout fired, run() threw, and a tradable answer arrived afterwards.
C25_Witness ==
  /\ pc = "failed"
  /\ thrown = "oracle"
  /\ oracleOutput # None
  /\ schema(oracleOutput[1])
  /\ \E i \in DOMAIN oracleOutput[1] : oracleOutput[1][i].opeartion = "Buy"
  /\ gatewayCalls = <<>>
  /\ ledger = <<>>


\* The invocation has started and has not returned.
Unfinished(c) == cycles[c].pc \in {"started", "loop"}

\* C26: cycles never overlap: an invocation of run() has read the account and
\* is processing decisions only when every earlier invocation has finished,
\* so no two invocations commit margin side by side against one and the same
\* available cash.
C26_CyclesNeverOverlap ==
  \A c, d \in 1..MaxCycles :
    (d < c /\ cycles[c].pc = "loop") =>
      /\ ~Unfinished(d)
      /\ cycles[c].seed = cycles[d].seed =>
           cycles[c].committed + cycles[d].committed <= cycles[c].seed


\* C27: when the ledger append fails, run() throws the ledger error; the
\* append was issued once and is not issued again, no CycleRecord exists, and
\* this also when orders were executed in the cycle: the failing step and
\* everything after it leave the gateway untouched, so nothing is reversed.
C27_LedgerFailureLosesCycle ==
  /\ [](thrown = "ledger" =>
          /\ pc = "failed"
          /\ appendCalls = 1
          /\ ledger = <<>>)
  /\ [][(thrown' = "ledger") =>
          /\ gatewayCalls' = gatewayCalls
          /\ appendCalls' = appendCalls
          /\ ledger' = ledger
          /\ allTradingRecords' = allTradingRecords]_vars

\* The final create failed in a cycle that had a Buy filled and a Sell
\* executed: three records in memory, none in the ledger.
C27_Witness ==
  /\ thrown = "ledger"
  /\ LoopEntered
  /\ Len(allTradingRecords) = 3
  /\ FilledBuys # {}
  /\ \E k \in DOMAIN gatewayCalls : gatewayCalls[k].op = "sell" /\ gatewayCalls[k].success
  /\ ledger = <<>>


\* The account is read before the oracle is called and, once read, stays the
\* value every later step sees; the running balance is that snapshot's
\* available cash less the margins of the Buys filled since.
AccountReadOnce ==
  /\ oracleCalls > 0 => account # None
  /\ pc \in {"prompt", "oracle", "loop", "sell", "blockedWrite", "write", "done"}
       => account # None
  /\ LoopEntered =>
       remainingAvailableCash = account[1].availableCash - FilledMargin(Len(gatewayCalls))

\* C28 as stated: the account is read once, before the oracle call, and nothing
\* of the account, cash or positions, is fetched again while the decisions are
\* processed.
C28_NothingFetchedAgain ==
  /\ AccountReadOnce
  /\ positionFetches = <<>>

\* C28, amended: the account is read once, before the oracle call, and its cash
\* is never fetched again; the positions are fetched again, once for each Sell
\* that has a percentage, and that lookup changes neither the account
\* snapshot nor the running balance.
C28_OnlyPositionsFetchedAgain ==
  /\ [](AccountReadOnce
         /\ \A f \in DOMAIN positionFetches :
              /\ decisions[positionFetches[f].i].opeartion = "Sell"
              /\ decisions[positionFetches[f].i].sell # None
              /\ \A g \in DOMAIN positionFetches :
                   positionFetches[g].i = positionFetches[f].i => g = f)
  /\ [][/\ account # None => account' = account
        /\ positionFetches' # positionFetches =>
             /\ LoopEntered
             /\ remainingAvailableCash' = remainingAvailableCash]_vars

\* A cycle that looked the positions up twice, for two Sells, on one account
\* read.
C28_Witness ==
  /\ pc = "done"
  /\ Len(positionFetches) = 2
  /\ \E f \in DOMAIN positionFetches : positionFetches[f].outcome = "found"
  /\ oracleCalls = 1
  /\ account # None


\* The Hold asks for a protective-order adjustment: it carries a stop-loss or
\* a take-profit value.
AdjustmentRequested(d) ==
  /\ d.adjustProfit # None
  /\ (d.adjustProfit[1].stopLoss # None \/ d.adjustProfit[1].takeProfit # None)

\* The stop-loss or take-profit the decision asks for, none without adjustment.
Requested(d, k) == IF d.adjustProfit = None THEN None ELSE d.adjustProfit[1][k]

\* C29: processing a Hold calls the protective-order gateway exactly when the
\* decision carries a stop-loss or take-profit value, and once; whatever the
\* call answers, the decision gets one TradeRecord with operation Hold that
\* carries the requested stop-loss and take-profit, and the loop goes on.
C29_HoldAdjustRecorded ==
  [][(pc = "loop" /\ decisions[idx].opeartion = "Hold") =>
       /\ AdjustmentRequested(decisions[idx]) <=> NewCall("setProtective")
       /\ Len(gatewayCalls') <= Len(gatewayCalls) + 1
       /\ Len(allTradingRecords') = Len(allTradingRecords) + 1
       /\ thrown' = "none"
       /\ idx' = idx + 1
       /\ pc' \in {"loop", "write"}
       /\ LET record == allTradingRecords'[Len(allTradingRecords')]
          IN /\ record.opeartion = "Hold"
             /\ record.stopLoss = Requested(decisions[idx], "stopLoss")
             /\ record.takeProfit = Requested(decisions[idx], "takeProfit")]_vars


\* The gateway calls made for the decision at index i.
CallsFor(i) == {k \in DOMAIN gatewayCalls : gatewayCalls[k].i = i}

\* C30: for a Sell with a percentage the position lookup only feeds the
\* record: whatever it finds, and when it throws, the sell is sent, once, with
\* the requested percentage; a lookup that failed or found nothing leaves the
\* TradeRecord without leverage, and never ends the cycle.
C30_LookupNeverBlocksSell ==
  /\ thrown # "lookup"
  /\ pc = "sell" =>
       /\ Len(positionFetches) >= 1
       /\ positionFetches[Len(positionFetches)].i = idx
       /\ CallsFor(idx) = {}
       /\ ENABLED ExecuteSell
  /\ \A f \in DOMAIN positionFetches :
       LET i == positionFetches[f].i
       IN Len(allTradingRecords) >= i =>
            /\ Cardinality(CallsFor(i)) = 1
            /\ \A k \in CallsFor(i) :
                 /\ gatewayCalls[k].op = "sell"
                 /\ gatewayCalls[k].args.percentage = decisions[i].sell[1].percentage
            /\ allTradingRecords[i].opeartion = "Sell"
            /\ positionFetches[f].outcome \in {"none", "threw"} =>
                 allTradingRecords[i].leverage = None
            /\ positionFetches[f].outcome = "found" =>
                 allTradingRecords[i].leverage = Some(foundPosition.leverage)

\* A Sell went through after its lookup threw, and another after its lookup
\* found nothing; the cycle completed.
C30_Witness ==
  /\ pc = "done"
  /\ \E f \in DOMAIN positionFetches :
       /\ positionFetches[f].outcome = "threw"
       /\ \E k \in CallsFor(positionFetches[f].i) : gatewayCalls[k].success
  /\ \E f \in DOMAIN positionFetches :
       /\ positionFetches[f].outcome = "none"
       /\ allTradingRecords[positionFetches[f].i].leverage = None

-----------------------------------------------------------------------------
\* The instruments whose fetch has settled, with a snapshot or as null.
Settled == {s \in DOMAIN marketStates : marketStates[s] \in {"ok", "null"}}

\* The instruments whose feed answers with a snapshot.
Answering == SeqToSet(supportedSymbols) \ (feedDown \cup feedSilent)

-----------------------------------------------------------------------------
\* C32: while the decisions are processed, and the available cash of cycle
\* start not being negative, remainingAvailableCash is never negative and
\* never above the available cash of cycle start.
C32_BalanceWithinStartCash ==
  (LoopEntered /\ account[1].availableCash >= 0) =>
    /\ remainingAvailableCash >= 0
    /\ remainingAvailableCash <= account[1].availableCash

-----------------------------------------------------------------------------
IsPrefix(a, b) == Len(a) <= Len(b) /\ a = SubSeq(b, 1, Len(a))

\* The audit log entry but for its label.
Unlabelled(t) == [k \in DOMAIN t \ {"action"} |-> t[k]]

\* The labels an entry of the audit log can carry under a trading mode.
Labels(mode) == IF mode = "live" THEN {"buy", "sell"} ELSE {"dry-run-buy", "dry-run-sell"}

\* C33: a run under one trading mode and a run under the other, given the
\* same oracle output, account state and gateway answers, make the same
\* gateway calls with the same arguments in the same order, end with the
\* same running balance, produce and persist the same TradeRecords, and end
\* the same way; their audit logs differ in the labels of the entries only.
C33_ModeDoesNotInfluenceTrading ==
  firstRun # None =>
    LET f == firstRun[1]
    IN /\ tradingMode # f.tradingMode
       /\ IsPrefix(gatewayCalls, f.gatewayCalls)
       /\ IsPrefix(allTradingRecords, f.allTradingRecords)
       /\ IsPrefix(allChatMessages, f.allChatMessages)
       /\ Len(auditLog) <= Len(f.auditLog)
       /\ \A k \in DOMAIN auditLog :
            /\ Unlabelled(auditLog[k]) = Unlabelled(f.auditLog[k])
            /\ auditLog[k].action \in Labels(tradingMode)
            /\ f.auditLog[k].action \in Labels(f.tradingMode)
       /\ pc \in {"done", "failed"} =>
            /\ pc = f.pc
            /\ gatewayCalls = f.gatewayCalls
            /\ remainingAvailableCash = f.remainingAvailableCash
            /\ allTradingRecords = f.allTradingRecords
            /\ Len(auditLog) = Len(f.auditLog)
            /\ ledger = f.ledger \o f.ledger

\* The second of the two runs has finished as the first did, after a filled
\* Buy and a Sell, and both are in the Ledger.
C33_Witness ==
  /\ firstRun # None
  /\ pc = "done"
  /\ Len(ledger) = 2
  /\ tradingMode = "dry-run"
  /\ \E k \in DOMAIN gatewayCalls : gatewayCalls[k].op = "buy" /\ gatewayCalls[k].success
  /\ \E k \in DOMAIN gatewayCalls : gatewayCalls[k].op = "sell"
  /\ remainingAvailableCash < account[1].availableCash
  /\ Len(auditLog) = 2

-----------------------------------------------------------------------------
\* C34: once a fetchActivity call has returned, with an answer taken, a
\* response that is not OK or an error caught, the loading flag is false.
C34_LoadingClearedAfterFetch ==
  (\E c \in DOMAIN activityCalls : activityCalls[c] = "returned") => loading = FALSE

-----------------------------------------------------------------------------
\* The places of the records of a symbol in the tradings of a chat.
PlacesOf(chat, sym) == {k \in DOMAIN chat.tradings : chat.tradings[k].symbol = sym}

Last(S) == CHOOSE k \in S : \A j \in S : j <= k

\* C35: every cycle record in the chat tab shows five decisions, for BTC, ETH,
\* BNB, SOL and DOGE in this order: the last TradeRecord of the symbol in the
\* cycle when there is one, else a Hold without price, amount or leverage; a
\* TradeRecord of another symbol is not among them.
C35_FiveDecisionsPerChat ==
  modelChat.view = "list" =>
    /\ Len(modelChat.cards) = Len(chats)
    /\ \A i \in DOMAIN chats :
         LET shown == modelChat.cards[i]
         IN /\ Len(shown) = 5
            /\ <<shown[1].symbol, shown[2].symbol, shown[3].symbol, shown[4].symbol,
                  shown[5].symbol>> = <<"BTC", "ETH", "BNB", "SOL", "DOGE">>
            /\ \A j \in 1..5 :
                 LET places == PlacesOf(chats[i], shown[j].symbol)
                 IN IF places # {}
                    THEN shown[j] = chats[i].tradings[Last(places)]
                    ELSE /\ shown[j].opeartion = "Hold"
                         /\ shown[j].pricing = None
                         /\ shown[j].amount = None
                         /\ shown[j].leverage = None
                         /\ shown[j].id \notin {t.id : t \in TradingMenu}

\* The chat tab shows a cycle with two records of BTC, the Sell after the
\* Buy: the BTC entry is the Sell, the others are placeholders.
C35_Witness ==
  /\ modelChat.view = "list"
  /\ \E i \in DOMAIN chats :
       /\ Cardinality(PlacesOf(chats[i], "BTC")) = 2
       /\ chats[i].tradings[Last(PlacesOf(chats[i], "BTC"))].opeartion = "Sell"
       /\ modelChat.cards[i][1].opeartion = "Sell"
       /\ modelChat.cards[i][2].id = <<"virtual", chats[i].id, "ETH">>
====
